---- MODULE Spec2Model ----
(***************************************************************************)
(* A model of alpha3: the self-play coordinator/worker protocol of         *)
(* alpha3/train.py, the replay buffer of alpha3/replaybuffer.py, the       *)
(* Connect-K game of alpha3/connectk.py and the MCTS engine (alpha3.a3mcts,*)
(* a C++ extension whose source is not part of the Python tree; it is      *)
(* modelled from its specification).                                       *)
(***************************************************************************)
EXTENDS Integers, Sequences, FiniteSets, TLC

(***************************************************************************)
(* Bounds of the model.                                                    *)
(***************************************************************************)
\* board of the initial state handed to train(): ConnectK(Rows, Columns, KConnect)
Rows == 2
Columns == 2
KConnect == 2
\* number of worker processes (config.workers)
NWorkers == 2
\* largest config.worker_concurrency the model starts with
MaxK == 2
\* config.evaluations, config.max_turns, config.steps
MaxEvaluations == 2
MaxTurns == 3
TotalSteps == 2
\* config.buffer_size and config.batch_size
BufferSize == 5
BatchSize == 1
\* the buffer runs: the largest max_size, the number of insert calls and the
\* largest sample(size)
MaxBuffer == 3
MaxInserts == 5
MaxSample == 4

\* the game played by hand: boards up to MaxRows x MaxColumns, k up to
\* MaxConnect, at most MaxPlays calls of play
MaxRows == 2
MaxColumns == 3
MaxConnect == 3
MaxPlays == 6

\* one MCTS instance driven by hand: the widest board, the most leaves in
\* flight, the most selections in a turn, the most None results kept
MCTSColumns == 4
MaxInFlight == 4
MaxSearches == 5
MaxRequeue == 1

\* the pipes under arbitrary traffic: the longest list a worker's peer and
\* train()'s peer have written
MaxWorkerBatch == 3
MaxCoordBatch == 2

(***************************************************************************)
(* Small helpers.                                                          *)
(***************************************************************************)
Abs(x) == IF x < 0 THEN -x ELSE x

Min(a, b) == IF a < b THEN a ELSE b

Max(a, b) == IF a < b THEN b ELSE a

RECURSIVE SumSeq(_)
SumSeq(s) == IF s = <<>> THEN 0 ELSE Head(s) + SumSeq(Tail(s))

RECURSIVE Concat(_)
Concat(ss) == IF ss = <<>> THEN <<>> ELSE Head(ss) \o Concat(Tail(ss))

(***************************************************************************)
(* alpha3/connectk.py: ConnectK.  A state is the two boolean planes of     *)
(* _position (as the sets of cells that are True) and _outcome.  Plane 0   *)
(* holds the pieces of the player to move, plane 1 those of the player who *)
(* just moved; row 0 is the top row.                                       *)
(***************************************************************************)
None == 99

\* the cells of the board of s
Cells(s) == (0 .. s._rows - 1) \X (0 .. s._columns - 1)

\* ConnectK(rows, columns, k): the empty board
ConnectK(rows, columns, k) ==
    [_rows |-> rows, _columns |-> columns, _k |-> k,
     p0 |-> {}, p1 |-> {}, outcome |-> None]

\* config.initial_state
InitialState == ConnectK(Rows, Columns, KConnect)

_occupied(s, row, column) == <<row, column>> \in s.p0 \/ <<row, column>> \in s.p1

\* moves(): the columns whose top cell is free, in increasing order; [] once over
RECURSIVE MovesFrom(_, _)
MovesFrom(s, column) ==
    IF column >= s._columns THEN <<>>
    ELSE IF _occupied(s, 0, column) THEN MovesFrom(s, column + 1)
    ELSE <<column>> \o MovesFrom(s, column + 1)

moves(s) == IF s.outcome # None THEN <<>> ELSE MovesFrom(s, 0)

\* the row the loop of play() breaks at
RECURSIVE DropRow(_, _, _)
DropRow(s, column, row) ==
    IF row = s._rows - 1 \/ _occupied(s, row + 1, column) THEN row
    ELSE DropRow(s, column, row + 1)

_k_connected(s, vector) ==
    LET RECURSIVE Scan(_, _)
        Scan(i, run) ==
            IF i > Len(vector) THEN FALSE
            ELSE IF vector[i]
                 THEN (run + 1 >= s._k) \/ Scan(i + 1, run + 1)
                 ELSE Scan(i + 1, 0)
    IN  Scan(1, 0)

\* the in-board cells of plane 1 along direction (dr, dc) through (row, column)
LineVector(s, row, column, dr, dc) ==
    LET RECURSIVE Build(_)
        Build(i) ==
            IF i >= s._k THEN <<>>
            ELSE LET r == row + dr * i
                     c == column + dc * i
                 IN  IF r >= 0 /\ r < s._rows /\ c >= 0 /\ c < s._columns
                     THEN <<(<<r, c>> \in s.p1)>> \o Build(i + 1)
                     ELSE Build(i + 1)
    IN  Build(-(s._k - 1))

Directions == << <<1, 0>>, <<0, 1>>, <<1, 1>>, <<1, -1>> >>

\* the full top row is not tested
_check_for_game_over_NoDraw(s, row, column) ==
    IF \E d \in 1 .. Len(Directions) :
           _k_connected(s, LineVector(s, row, column,
                                      Directions[d][1], Directions[d][2]))
    THEN [s EXCEPT !.outcome = -1]
    ELSE s

_check_for_game_over(s, row, column) ==
    IF row = 0 /\ \A c \in 0 .. s._columns - 1 : _occupied(s, 0, c)
    THEN [s EXCEPT !.outcome = 0]
    ELSE IF \E d \in 1 .. Len(Directions) :
                _k_connected(s, LineVector(s, row, column,
                                           Directions[d][1], Directions[d][2]))
         THEN [s EXCEPT !.outcome = -1]
         ELSE s

\* A ConnectK object refers to its _position array; heap holds the arrays, each
\* as its two planes.  The state an object stands for:
Deref(heap, self) ==
    [_rows |-> self._rows, _columns |-> self._columns, _k |-> self._k,
     p0 |-> heap[self._position].p0, p1 |-> heap[self._position].p1,
     outcome |-> self._outcome]

\* the piece is written through the flipped view of self._position, and the
\* copy is taken afterwards
play_object_WriteThrough(heap, self, column) ==
    LET row == DropRow(Deref(heap, self), column, 0)
        through == [heap EXCEPT ![self._position].p0 = @ \cup {<<row, column>>}]
        fresh == Append(through, [p0 |-> through[self._position].p1,
                                  p1 |-> through[self._position].p0])
        child == [self EXCEPT !._position = Len(fresh)]
    IN  [heap |-> fresh,
         child |-> [child EXCEPT !._outcome =
                       _check_for_game_over(Deref(fresh, child), row, column).outcome]]

\* play(column) on the object self: copy(self), a fresh array that is the
\* copy of the flipped planes, the piece on its plane 1, _check_for_game_over
play_object(heap, self, column) ==
    LET row == DropRow(Deref(heap, self), column, 0)
        flipped == [p0 |-> heap[self._position].p1, p1 |-> heap[self._position].p0]
        fresh == Append(heap, [flipped EXCEPT !.p1 = @ \cup {<<row, column>>}])
        child == [self EXCEPT !._position = Len(fresh)]
    IN  [heap |-> fresh,
         child |-> [child EXCEPT !._outcome =
                       _check_for_game_over(Deref(fresh, child), row, column).outcome]]

\* play(column) as a function of the state self stands for
play(s, column) ==
    LET r == play_object(<<[p0 |-> s.p0, p1 |-> s.p1]>>,
                         [_rows |-> s._rows, _columns |-> s._columns, _k |-> s._k,
                          _position |-> 1, _outcome |-> s.outcome],
                         column)
    IN  Deref(r.heap, r.child)

outcome(s) == s.outcome

\* position(): the float32 view of the two planes
position(s) == <<s.p0, s.p1>>

(***************************************************************************)
(* alpha3/replaybuffer.py: ReplayBuffer.  _features and _labels are arrays *)
(* of max_size rows, zero-filled by np.zeros at construction.              *)
(***************************************************************************)
\* fixed point of the probabilities stored in labels and sent as priors
ProbScale == 1000000

ZeroFeatures == << {}, {} >>

ZeroLabel == [i \in 1 .. 1 + Columns |-> 0]

ReplayBufferNew(max_size) ==
    [_features |-> [i \in 0 .. max_size - 1 |-> ZeroFeatures],
     _labels |-> [i \in 0 .. max_size - 1 |-> ZeroLabel],
     _max_size |-> max_size,
     _size |-> 0,
     _oldest_index |-> 0]

\* the write index is advanced before the row is written
insert_AdvanceFirst(rb, features, label) ==
    LET at == (rb._oldest_index + 1) % rb._max_size
    IN  [rb EXCEPT !._size = Min(rb._size + 1, rb._max_size),
                   !._features[at] = features,
                   !._labels[at] = label,
                   !._oldest_index = at]

\* the write index is not taken modulo max_size
insert_NoWrap(rb, features, label) ==
    [rb EXCEPT !._size = Min(rb._size + 1, rb._max_size),
               !._features[rb._oldest_index] = features,
               !._labels[rb._oldest_index] = label,
               !._oldest_index = rb._oldest_index + 1]

insert(rb, features, label) ==
    [rb EXCEPT !._size = Min(rb._size + 1, rb._max_size),
               !._features[rb._oldest_index] = features,
               !._labels[rb._oldest_index] = label,
               !._oldest_index = (rb._oldest_index + 1) % rb._max_size]

len(rb) == rb._size

\* the sequences of pairwise distinct elements of S that have length n
InjectiveSeqs(S, n) ==
    {q \in [1 .. n -> S] : \A i, j \in 1 .. n : i # j => q[i] # q[j]}

\* the draw is over the capacity instead of the populated prefix
sample_choices_Capacity(rb, size) ==
    InjectiveSeqs(0 .. rb._max_size - 1, Min(size, rb._size))

\* np.random.choice(self._size, size, replace=False): the possible draws
sample_choices(rb, size) ==
    InjectiveSeqs(0 .. rb._size - 1, Min(size, rb._size))

\* sample(size), for the drawn indices: the gathered rows (copies)
sample(rb, indices) ==
    [features |-> [i \in 1 .. Len(indices) |-> rb._features[indices[i]]],
     labels |-> [i \in 1 .. Len(indices) |-> rb._labels[indices[i]]],
     indices |-> indices]

NoSample == [requested |-> -1, features |-> <<>>, labels |-> <<>>, indices |-> <<>>]

(***************************************************************************)
(* alpha3/train.py: the message tags and _BufferedPipe.  What a Connection *)
(* carries is a sequence of written objects; an object is the list handed  *)
(* to Connection.send (kind "list") or a bare message tuple (kind "tuple").*)
(***************************************************************************)
_TERMINATE == 0
_EVALUATE == 1
_EVALUATION == 2
_RESULT == 3

\* len(self._buffer) >= 96
BatchLimit == 96

Message(tag, state, value, expansion, score, history) ==
    [tag |-> tag, state |-> state, value |-> value, expansion |-> expansion,
     score |-> score, history |-> history]

TerminateMsg == Message(_TERMINATE, InitialState, 0, <<>>, 0, <<>>)

EvaluateMsg(game_state) == Message(_EVALUATE, game_state, 0, <<>>, 0, <<>>)

EvaluationMsg(av, expansion) == Message(_EVALUATION, InitialState, av, expansion, 0, <<>>)

ResultMsg(score, history) == Message(_RESULT, InitialState, 0, <<>>, score, history)

ListObject(items) == [kind |-> "list", items |-> items]

TupleObject(msg) == [kind |-> "tuple", items |-> <<msg>>]

\* a _BufferedPipe is [pipe |-> the objects written so far, _buffer |-> ...]
BufferedPipe(pipe) == [pipe |-> pipe, _buffer |-> <<>>]

\* the list written is the buffer itself, which clear() then empties
BP_send_SharedList(bp, object) ==
    LET buf == Append(bp._buffer, object)
    IN  IF Len(buf) >= BatchLimit
        THEN [pipe |-> Append(bp.pipe, ListObject(<<>>)), _buffer |-> <<>>]
        ELSE [pipe |-> bp.pipe, _buffer |-> buf]

\* Connection.send pickles the list when it is called: what is written is the
\* value the buffer has then
BP_send(bp, object) ==
    LET buf == Append(bp._buffer, object)
    IN  IF Len(buf) >= BatchLimit
        THEN [pipe |-> Append(bp.pipe, ListObject(buf)), _buffer |-> <<>>]
        ELSE [pipe |-> bp.pipe, _buffer |-> buf]

BP_flush(bp) ==
    IF Len(bp._buffer) = 0 THEN bp
    ELSE [pipe |-> Append(bp.pipe, ListObject(bp._buffer)), _buffer |-> <<>>]

(***************************************************************************)
(* alpha3.a3mcts: MCTS.  The tree of an instance is a function from paths  *)
(* (the moves from the root) to nodes; the root is the empty path.         *)
(* Values are in thousandths, priors in thousandths.                       *)
(***************************************************************************)
ValueScale == 1000

PriorScale == 1000

\* config.c_init (in tenths) and the table of 10 * log((N + c_base + 1) / c_base)
CInitDeci == 196520

LogDeci == <<6, 10, 12, 14, 16, 18, 19, 20, 21, 22, 23, 24, 24, 25, 26, 26, 27>>

\* 1000 * sqrt(N)
SqrtMilli == <<0, 1000, 1414, 1732, 2000, 2236, 2449, 2645, 2828, 3000, 3162,
               3316, 3464, 3605, 3741, 3872, 4000>>

\* config.noise_fraction, in thousandths
NoiseFractionMilli == 250

Edge(move, prior) ==
    [move |-> move, prior |-> prior, visits |-> 0, total_value |-> 0,
     pending_visits |-> 0]

Node(state) ==
    [expanded |-> FALSE, terminal_value |-> None, state |-> state, children |-> <<>>]

MCTS(initial_state) ==
    [current_state |-> initial_state,
     tree |-> (<<>> :> Node(initial_state)),
     root_pending |-> FALSE,
     history |-> <<>>,
     turns |-> 0,
     searches |-> 0,
     noise_this_turn |-> 0]

Root == <<>>

\* N_p = sum over the children of visits + pending_visits
ParentVisits(node) ==
    SumSeq([j \in 1 .. Len(node.children) |->
                node.children[j].visits + node.children[j].pending_visits])

\* the pending visits are left out of the score: no virtual loss
PUCTScore_NoVirtualLoss(e, np) ==
    LET n == e.visits
        q == (e.total_value \div Max(1, n)) \div 10
        a == (e.prior * SqrtMilli[np + 1]) \div PriorScale
        c == CInitDeci + LogDeci[np + 1]
    IN  q + (a * c) \div (100 * (1 + n))

\* Q(s,a) + U(s,a), in hundredths
PUCTScore(e, np) ==
    LET n == e.visits + e.pending_visits
        q == ((e.total_value - e.pending_visits * ValueScale) \div Max(1, n)) \div 10
        a == (e.prior * SqrtMilli[np + 1]) \div PriorScale
        c == CInitDeci + LogDeci[np + 1]
    IN  q + (a * c) \div (100 * (1 + n))

\* the index of the child of largest score, the lowest action index on a tie
BestChild(node) ==
    LET np == ParentVisits(node)
        score(j) == PUCTScore(node.children[j], np)
    IN  CHOOSE j \in 1 .. Len(node.children) :
            \A i \in 1 .. Len(node.children) :
                /\ score(i) <= score(j)
                /\ (i < j => score(i) < score(j))

\* the descent of select_leaf from an expanded root: [tree, leaf]
RECURSIVE Descend(_, _)
Descend(tree, path) ==
    LET node == tree[path]
    IN  IF ~node.expanded \/ node.children = <<>>
        THEN [tree |-> tree, leaf |-> path]
        ELSE LET j == BestChild(node)
                 marked == [tree EXCEPT ![path].children[j].pending_visits = @ + 1]
             IN  Descend(marked, Append(path, node.children[j].move))

NoLeaf == <<-1>>

\* the unexpanded root is returned again while its leaf is pending
select_leaf_RootAgain(mcts) ==
    IF ~mcts.tree[Root].expanded
    THEN [mcts |-> [mcts EXCEPT !.root_pending = TRUE], leaf |-> Root,
          state |-> mcts.tree[Root].state]
    ELSE LET d == Descend(mcts.tree, Root)
         IN  [mcts |-> [mcts EXCEPT !.tree = d.tree], leaf |-> d.leaf,
              state |-> d.tree[d.leaf].state]

\* select_leaf(): [mcts, leaf, state]; leaf = NoLeaf stands for the result None
select_leaf(mcts) ==
    IF ~mcts.tree[Root].expanded
    THEN IF mcts.root_pending
         THEN [mcts |-> mcts, leaf |-> NoLeaf, state |-> mcts.current_state]
         ELSE [mcts |-> [mcts EXCEPT !.root_pending = TRUE], leaf |-> Root,
               state |-> mcts.tree[Root].state]
    ELSE LET d == Descend(mcts.tree, Root)
         IN  [mcts |-> [mcts EXCEPT !.tree = d.tree], leaf |-> d.leaf,
              state |-> d.tree[d.leaf].state]

\* the index of the edge of node that carries move
EdgeOf(node, move) ==
    CHOOSE j \in 1 .. Len(node.children) : node.children[j].move = move

\* the pending visit is left on the edges of the path
RECURSIVE Backup_KeepPending(_, _, _)
Backup_KeepPending(tree, path, value) ==
    IF path = <<>> THEN tree
    ELSE LET parent == SubSeq(path, 1, Len(path) - 1)
             j == EdgeOf(tree[parent], path[Len(path)])
             backed == [tree EXCEPT
                          ![parent].children[j].total_value = @ + value,
                          ![parent].children[j].visits = @ + 1]
         IN  Backup_KeepPending(backed, parent, -value)

\* the backup from leaf to the root: W += value, N += 1, pending -= 1, negate
RECURSIVE Backup(_, _, _)
Backup(tree, path, value) ==
    IF path = <<>> THEN tree
    ELSE LET parent == SubSeq(path, 1, Len(path) - 1)
             j == EdgeOf(tree[parent], path[Len(path)])
             backed == [tree EXCEPT
                          ![parent].children[j].total_value = @ + value,
                          ![parent].children[j].visits = @ + 1,
                          ![parent].children[j].pending_visits = @ - 1]
         IN  Backup(backed, parent, -value)

\* expanding a leaf that is expanded already is an error, but for a terminal
\* leaf that is selected again, whose cached value is backed up again
ExpandError(mcts, leaf) ==
    \/ leaf \notin DOMAIN mcts.tree
    \/ mcts.tree[leaf].expanded /\ mcts.tree[leaf].children # <<>>

\* expand_leaf(leaf, value, children), children = <<[move, state, prior], ...>>
expand_leaf(mcts, leaf, value, children) ==
    LET installed ==
            [mcts.tree EXCEPT
               ![leaf].expanded = TRUE,
               ![leaf].terminal_value = IF children = <<>> THEN value ELSE None,
               ![leaf].children =
                   [j \in 1 .. Len(children) |->
                        Edge(children[j].move, children[j].prior)]]
        grown == [p \in DOMAIN installed \cup
                        {Append(leaf, children[j].move) : j \in 1 .. Len(children)} |->
                    IF p \in DOMAIN installed THEN installed[p]
                    ELSE Node(children[EdgeOf(installed[leaf], p[Len(p)])].state)]
    IN  [mcts EXCEPT !.tree = Backup(grown, leaf, value),
                     !.root_pending = IF leaf = Root THEN FALSE ELSE @,
                     !.searches = @ + 1]

searches_this_turn(mcts) == mcts.searches

turns(mcts) == mcts.turns

complete(mcts) == outcome(mcts.current_state) # None

\* the improved policy: <<move, probability>> per root child, none without visits
SearchProbabilities(root) ==
    LET total == SumSeq([j \in 1 .. Len(root.children) |-> root.children[j].visits])
    IN  IF total = 0 THEN <<>>
        ELSE [j \in 1 .. Len(root.children) |->
                 <<root.children[j].move,
                   (root.children[j].visits * ProbScale) \div total>>]

\* the child indices move_proportional() may sample
MoveChoices(mcts) ==
    LET root == mcts.tree[Root]
    IN  IF \A j \in 1 .. Len(root.children) : root.children[j].visits = 0
        THEN 1 .. Len(root.children)
        ELSE {j \in 1 .. Len(root.children) : root.children[j].visits > 0}

\* the per-turn count of searches is carried over to the new root
move_proportional_KeepSearches(mcts, j) ==
    LET root == mcts.tree[Root]
        move == root.children[j].move
        kept == {p \in DOMAIN mcts.tree : p # <<>> /\ p[1] = move}
    IN  [current_state |-> mcts.tree[<<move>>].state,
         tree |-> [q \in {Tail(p) : p \in kept} |-> mcts.tree[<<move>> \o q]],
         root_pending |-> FALSE,
         history |-> Append(mcts.history,
                            [state |-> mcts.current_state,
                             search_probabilities |-> SearchProbabilities(root)]),
         turns |-> mcts.turns + 1,
         searches |-> mcts.searches,
         noise_this_turn |-> 0]

\* move_proportional(), having sampled the child of index j
move_proportional(mcts, j) ==
    LET root == mcts.tree[Root]
        move == root.children[j].move
        kept == {p \in DOMAIN mcts.tree : p # <<>> /\ p[1] = move}
    IN  [current_state |-> mcts.tree[<<move>>].state,
         tree |-> [q \in {Tail(p) : p \in kept} |-> mcts.tree[<<move>> \o q]],
         root_pending |-> FALSE,
         history |-> Append(mcts.history,
                            [state |-> mcts.current_state,
                             search_probabilities |-> SearchProbabilities(root)]),
         turns |-> mcts.turns + 1,
         searches |-> 0,
         noise_this_turn |-> 0]

\* collect_result(): the outcome for the first player to move, and the history
collect_result(mcts) ==
    LET final == IF complete(mcts) THEN outcome(mcts.current_state) * ValueScale ELSE 0
    IN  [score |-> IF mcts.turns % 2 = 0 THEN final ELSE -final,
         history |-> mcts.history]

reset(mcts, initial_state) == MCTS(initial_state)

\* add_dirichlet_noise(alpha, fraction), the drawn eta being all on child k
add_dirichlet_noise(mcts, k) ==
    [mcts EXCEPT
       !.tree[Root].children =
           [j \in 1 .. Len(@) |->
               [@[j] EXCEPT !.prior =
                   ((PriorScale - NoiseFractionMilli) * @
                    + NoiseFractionMilli * (IF j = k THEN PriorScale ELSE 0))
                   \div PriorScale]],
       !.noise_this_turn = @ + 1]

(***************************************************************************)
(* The state of the system: train() (the coordinator), the _worker         *)
(* processes, the two directions of each Pipe, and the replay buffer.      *)
(***************************************************************************)
VARIABLES
    game,               \* the ConnectK objects of a game played by hand (game runs only)
    worker_concurrency, \* config.worker_concurrency
    evaluations,        \* config.evaluations
    toCoord,            \* per worker: objects written by the worker, unread
    toWorker,           \* per worker: objects written by the coordinator, unread
    wk,                 \* per worker: the locals of _worker
    insts,              \* per worker: its MCTS instances, by index
    co,                 \* the locals of train()
    buffer,             \* the ReplayBuffer
    inserted,           \* every example handed to insert so far (buffer runs only)
    sampled             \* what the last sample() returned

\* no game is played by hand
NoGame == [heap |-> <<>>, path |-> <<>>, moves |-> <<>>]

vars == <<game, worker_concurrency, evaluations, toCoord, toWorker, wk, insts, co, buffer,
          inserted, sampled>>

Workers == 1 .. NWorkers

\* the deque holds one element less than maxlen
DequeAppend_OneShort(q, x, maxlen) ==
    IF maxlen = 0 THEN <<>>
    ELSE IF Len(q) >= maxlen - 1 /\ q # <<>> THEN Append(Tail(q), x)
    ELSE Append(q, x)

\* deque(maxlen): append drops from the left end when full
DequeAppend(q, x, maxlen) ==
    IF maxlen = 0 THEN <<>>
    ELSE IF Len(q) >= maxlen THEN Append(Tail(q), x)
    ELSE Append(q, x)

RECURSIVE DequeExtend(_, _, _)
DequeExtend(q, xs, maxlen) ==
    IF xs = <<>> THEN q
    ELSE DequeExtend(DequeAppend(q, Head(xs), maxlen), Tail(xs), maxlen)

(***************************************************************************)
(* _worker (train.py 241-301).                                             *)
(***************************************************************************)
WorkerInit(k) ==
    [pc |-> "start",
     pending_selection |-> [i \in 1 .. k |-> i],
     requeue |-> <<>>,
     pending_evaluation |-> <<>>,
     _buffer |-> <<>>,
     got_terminate |-> FALSE]

\* the test of the outer while loop
LoopTest(w_) ==
    IF Len(w_.pending_selection) + Len(w_.pending_evaluation) > 0
    THEN [w_ EXCEPT !.pc = "select", !.requeue = <<>>]
    ELSE [w_ EXCEPT !.pc = "returned"]

WorkerStart(w) ==
    /\ wk[w].pc = "start"
    /\ wk' = [wk EXCEPT ![w] = LoopTest(@)]
    /\ UNCHANGED <<game, worker_concurrency, evaluations, toCoord, toWorker, insts, co, buffer,
                   inserted, sampled>>

\* the leaf is sent for evaluation whatever its outcome
SelectStep_NoShortcut(st, i, mcts, maxlen) ==
    LET sel == select_leaf(mcts)
        popped == [st.w_ EXCEPT !.pending_selection = Tail(@)]
    IN  IF sel.leaf = NoLeaf
        THEN [w_ |-> [popped EXCEPT !.requeue = Append(@, i)],
              mctss |-> [st.mctss EXCEPT ![i] = sel.mcts],
              bp |-> st.bp]
        ELSE [w_ |-> [popped EXCEPT !.pending_evaluation =
                                        DequeAppend(@, <<i, sel.leaf>>, maxlen)],
              mctss |-> [st.mctss EXCEPT ![i] = sel.mcts],
              bp |-> BP_send(st.bp, EvaluateMsg(sel.state))]

\* the instance whose leaf was sent for evaluation is requeued as well
SelectStep_RequeueToo(st, i, mcts, maxlen) ==
    LET sel == select_leaf(mcts)
        popped == [st.w_ EXCEPT !.pending_selection = Tail(@)]
    IN  IF sel.leaf = NoLeaf
        THEN [w_ |-> [popped EXCEPT !.requeue = Append(@, i)],
              mctss |-> [st.mctss EXCEPT ![i] = sel.mcts],
              bp |-> st.bp]
        ELSE IF outcome(sel.state) # None
        THEN [w_ |-> [popped EXCEPT !.requeue = Append(@, i)],
              mctss |-> [st.mctss EXCEPT ![i] =
                            expand_leaf(sel.mcts, sel.leaf,
                                        outcome(sel.state) * ValueScale, <<>>)],
              bp |-> st.bp]
        ELSE [w_ |-> [popped EXCEPT !.requeue = Append(@, i),
                                    !.pending_evaluation =
                                        DequeAppend(@, <<i, sel.leaf>>, maxlen)],
              mctss |-> [st.mctss EXCEPT ![i] = sel.mcts],
              bp |-> BP_send(st.bp, EvaluateMsg(sel.state))]

\* lines 271-283: select_leaf and what follows it, for instance i in state mcts;
\* st is [w_, mctss, bp]: the locals, the instances, the worker's _BufferedPipe
SelectStep(st, i, mcts, maxlen) ==
    LET sel == select_leaf(mcts)
        popped == [st.w_ EXCEPT !.pending_selection = Tail(@)]
    IN  IF sel.leaf = NoLeaf
        THEN [w_ |-> [popped EXCEPT !.requeue = Append(@, i)],
              mctss |-> [st.mctss EXCEPT ![i] = sel.mcts],
              bp |-> st.bp]
        ELSE IF outcome(sel.state) # None
        THEN [w_ |-> [popped EXCEPT !.requeue = Append(@, i)],
              mctss |-> [st.mctss EXCEPT ![i] =
                            expand_leaf(sel.mcts, sel.leaf,
                                        outcome(sel.state) * ValueScale, <<>>)],
              bp |-> st.bp]
        ELSE [w_ |-> [popped EXCEPT !.pending_evaluation =
                                        DequeAppend(@, <<i, sel.leaf>>, maxlen)],
              mctss |-> [st.mctss EXCEPT ![i] = sel.mcts],
              bp |-> BP_send(st.bp, EvaluateMsg(sel.state))]

\* the finished instance is requeued as it is, without the reset
FinishStep_NoReset(st, i, moved) ==
    LET res == collect_result(moved)
    IN  [w_ |-> [st.w_ EXCEPT !.pending_selection = Tail(@),
                              !.requeue = Append(@, i)],
         mctss |-> [st.mctss EXCEPT ![i] = moved],
         bp |-> BP_send(st.bp, ResultMsg(res.score, res.history))]

\* lines 262-266: the move is committed and the game is over
FinishStep(st, i, moved) ==
    LET res == collect_result(moved)
    IN  [w_ |-> [st.w_ EXCEPT !.pending_selection = Tail(@),
                              !.requeue = Append(@, i)],
         mctss |-> [st.mctss EXCEPT ![i] = reset(moved, InitialState)],
         bp |-> BP_send(st.bp, ResultMsg(res.score, res.history))]

\* lines 268-283: the noise when it is due, for every eta that may be drawn
NoiseAndSelect(st, i, mcts, maxlen) ==
    IF searches_this_turn(mcts) = 1
    THEN IF ~mcts.tree[Root].expanded \/ mcts.tree[Root].children = <<>>
         THEN {[st EXCEPT !.w_.pc = "crashed"]}
         ELSE {SelectStep(st, i, add_dirichlet_noise(mcts, k), maxlen) :
                  k \in 1 .. Len(mcts.tree[Root].children)}
    ELSE {SelectStep(st, i, mcts, maxlen)}

\* the result is collected after every committed move
SelectionTurn_AlwaysCollect(st, maxlen) ==
    LET i == Head(st.w_.pending_selection)
        mcts == st.mctss[i]
    IN  IF complete(mcts)
        THEN {[st EXCEPT !.w_.pc = "crashed"]}
        ELSE IF searches_this_turn(mcts) >= evaluations
        THEN {FinishStep(st, i, move_proportional(mcts, j)) : j \in MoveChoices(mcts)}
        ELSE NoiseAndSelect(st, i, mcts, maxlen)

\* the move is committed once the budget is exceeded
SelectionTurn_LateMove(st, maxlen) ==
    LET i == Head(st.w_.pending_selection)
        mcts == st.mctss[i]
    IN  IF complete(mcts)
        THEN {[st EXCEPT !.w_.pc = "crashed"]}
        ELSE IF searches_this_turn(mcts) > evaluations
        THEN UNION {LET moved == move_proportional(mcts, j)
                    IN  IF complete(moved) \/ turns(moved) >= MaxTurns
                        THEN {FinishStep(st, i, moved)}
                        ELSE NoiseAndSelect(st, i, moved, maxlen) :
                    j \in MoveChoices(mcts)}
        ELSE NoiseAndSelect(st, i, mcts, maxlen)

\* one turn of the inner while loop (lines 253-283): the states it may end in
SelectionTurn(st, maxlen) ==
    LET i == Head(st.w_.pending_selection)
        mcts == st.mctss[i]
    IN  IF complete(mcts)
        THEN {[st EXCEPT !.w_.pc = "crashed"]}   \* assert not mcts.complete()
        ELSE IF searches_this_turn(mcts) >= evaluations
        THEN UNION {LET moved == move_proportional(mcts, j)
                    IN  IF complete(moved) \/ turns(moved) >= MaxTurns
                        THEN {FinishStep(st, i, moved)}
                        ELSE NoiseAndSelect(st, i, moved, maxlen) :
                    j \in MoveChoices(mcts)}
        ELSE NoiseAndSelect(st, i, mcts, maxlen)

\* the inner while loop (lines 253-283), run until pending_selection is empty
RECURSIVE SelectionLoop(_, _)
SelectionLoop(st, maxlen) ==
    IF st.w_.pc = "crashed" \/ st.w_.pending_selection = <<>> THEN {st}
    ELSE UNION {SelectionLoop(st2, maxlen) : st2 \in SelectionTurn(st, maxlen)}

\* pipe.flush() is left out
FlushStep_NoFlush(st, maxlen) ==
    LET queued == [st.w_ EXCEPT
                     !.pending_selection = DequeExtend(@, st.w_.requeue, maxlen),
                     !.requeue = <<>>]
    IN  [st EXCEPT !.w_ = IF Len(queued.pending_evaluation) > 0
                          THEN [queued EXCEPT !.pc = "recv"]
                          ELSE LoopTest(queued)]

\* lines 285-289: requeue, flush, and block in recv or loop
FlushStep(st, maxlen) ==
    LET bp == BP_flush(st.bp)
        queued == [st.w_ EXCEPT
                     !.pending_selection = DequeExtend(@, st.w_.requeue, maxlen),
                     !.requeue = <<>>]
    IN  [st EXCEPT !.bp = bp,
                   !.w_ = IF Len(queued.pending_evaluation) > 0
                          THEN [queued EXCEPT !.pc = "recv"]
                          ELSE LoopTest(queued)]

\* one iteration of the outer loop up to recv (lines 251-289); what the worker
\* sends in it reaches the Pipe at the flush
WorkerSelect(w) ==
    /\ wk[w].pc = "select"
    /\ \E st \in SelectionLoop([w_ |-> wk[w], mctss |-> insts[w],
                                bp |-> [pipe |-> toCoord[w], _buffer |-> wk[w]._buffer]],
                               worker_concurrency) :
          LET out == IF st.w_.pc = "crashed" THEN st
                     ELSE FlushStep(st, worker_concurrency)
          IN  /\ wk' = [wk EXCEPT ![w] = [out.w_ EXCEPT !._buffer = out.bp._buffer]]
              /\ insts' = [insts EXCEPT ![w] = out.mctss]
              /\ toCoord' = [toCoord EXCEPT ![w] = out.bp.pipe]
    /\ UNCHANGED <<game, worker_concurrency, evaluations, toWorker, co, buffer, inserted, sampled>>

\* lines 290-301 over the messages of one received list: [w_, mcts]
RECURSIVE ProcessBatch(_, _, _, _)
ProcessBatch(w_, mctss, items, maxlen) ==
    IF items = <<>> \/ w_.pc # "recv" THEN [w_ |-> w_, mctss |-> mctss]
    ELSE LET msg == Head(items)
         IN  IF msg.tag = _TERMINATE
             THEN [w_ |-> [w_ EXCEPT !.pc = "returned", !.got_terminate = TRUE],
                   mctss |-> mctss]
             ELSE IF msg.tag # _EVALUATION \/ w_.pending_evaluation = <<>>
             THEN [w_ |-> [w_ EXCEPT !.pc = "crashed"], mctss |-> mctss]
             ELSE LET i == Head(w_.pending_evaluation)[1]
                      leaf == Head(w_.pending_evaluation)[2]
                  IN  IF ExpandError(mctss[i], leaf)
                      THEN [w_ |-> [w_ EXCEPT !.pc = "crashed",
                                              !.pending_evaluation = Tail(@)],
                            mctss |-> mctss]
                      ELSE ProcessBatch(
                             [w_ EXCEPT !.pending_evaluation = Tail(@),
                                        !.pending_selection =
                                            DequeAppend(@, i, maxlen)],
                             [mctss EXCEPT ![i] =
                                 expand_leaf(@, leaf, msg.value, msg.expansion)],
                             Tail(items), maxlen)

\* pipe.recv() and the for loop over what it returned
WorkerRecv(w) ==
    /\ wk[w].pc = "recv"
    /\ toWorker[w] # <<>>
    /\ LET object == Head(toWorker[w])
       IN  IF object.kind # "list"
           THEN \* iterating a bare tuple yields its tag: "command, *args = 0" raises
                /\ wk' = [wk EXCEPT ![w].pc = "crashed"]
                /\ UNCHANGED insts
           ELSE LET done == ProcessBatch(wk[w], insts[w], object.items,
                                         worker_concurrency)
                IN  /\ wk' = [wk EXCEPT ![w] =
                                 IF done.w_.pc = "recv" THEN LoopTest(done.w_)
                                 ELSE done.w_]
                    /\ insts' = [insts EXCEPT ![w] = done.mctss]
    /\ toWorker' = [toWorker EXCEPT ![w] = Tail(@)]
    /\ UNCHANGED <<game, worker_concurrency, evaluations, toCoord, co, buffer, inserted, sampled>>

(***************************************************************************)
(* train() (train.py 67-231).  The counters that only feed the log lines   *)
(* (games_played, wins, losses, draws) are left out.                       *)
(***************************************************************************)
CoordInit ==
    [pc |-> "wait",
     step |-> 0,
     optimizer_steps |-> 0,
     states_for_evaluation |-> <<>>,
     wrappers |-> [w \in Workers |-> <<>>],
     read |-> [w \in Workers |-> 0],
     written |-> [w \in Workers |-> 0],
     results |-> 0,
     inserts |-> 0]

\* lines 112-122: the received score (in thousandths) as -1, 0 or 1; None when
\* "assert abs(score) > 0.99" fails
NormaliseScore(score) ==
    IF Abs(score) * 100 < 1 THEN 0
    ELSE IF ~(Abs(score) * 100 > 99 * ValueScale) THEN None
    ELSE IF score > 0 THEN 1 ELSE -1

\* lines 127-135: the label of one turn
Label(score, search_probabilities) ==
    IF Len(search_probabilities) = 0
    THEN [i \in 1 .. 1 + Columns |-> IF i = 1 THEN score ELSE ProbScale \div Columns]
    ELSE [i \in 1 .. 1 + Columns |->
            IF i = 1 THEN score
            ELSE IF \E j \in 1 .. Len(search_probabilities) :
                        search_probabilities[j][1] = i - 2
                 THEN LET j == CHOOSE j \in 1 .. Len(search_probabilities) :
                                  /\ search_probabilities[j][1] = i - 2
                                  /\ \A l \in j + 1 .. Len(search_probabilities) :
                                         search_probabilities[l][1] # i - 2
                      IN  search_probabilities[j][2]
                 ELSE 0]

\* assert abs(np.sum(label[1:]) - 1) < 1e-5
LabelSumOk(label) ==
    Abs(SumSeq(Tail(label)) - ProbScale) * 100000 < ProbScale

\* the score is not negated from one turn to the next
RECURSIVE InsertHistory_NoNegate(_, _, _, _)
InsertHistory_NoNegate(rb, score, history, n) ==
    IF history = <<>> THEN [ok |-> TRUE, buffer |-> rb, inserts |-> n]
    ELSE LET label == Label(score, Head(history).search_probabilities)
         IN  IF ~LabelSumOk(label) THEN [ok |-> FALSE, buffer |-> rb, inserts |-> n]
             ELSE InsertHistory_NoNegate(insert(rb, position(Head(history).state), label),
                                         score, Tail(history), n + 1)

\* lines 124-141: the loop over the history: [ok, buffer, inserts]
RECURSIVE InsertHistory(_, _, _, _)
InsertHistory(rb, score, history, n) ==
    IF history = <<>> THEN [ok |-> TRUE, buffer |-> rb, inserts |-> n]
    ELSE LET label == Label(score, Head(history).search_probabilities)
         IN  IF ~LabelSumOk(label) THEN [ok |-> FALSE, buffer |-> rb, inserts |-> n]
             ELSE InsertHistory(insert(rb, position(Head(history).state), label),
                                -score, Tail(history), n + 1)

\* lines 107-141: one RESULT message
IngestResult(rb, score, history) ==
    LET normal == NormaliseScore(score)
    IN  IF normal = None THEN [ok |-> FALSE, buffer |-> rb, inserts |-> 0]
        ELSE InsertHistory(rb, normal, history, 0)

\* a message of another tag is skipped
RECURSIVE Commands_SkipOthers(_, _, _)
Commands_SkipOthers(c, items, w) ==
    IF items = <<>> \/ ~c.ok THEN c
    ELSE LET msg == Head(items)
         IN  IF msg.tag = _EVALUATE
             THEN Commands_SkipOthers(
                      [c EXCEPT !.states = Append(@, [state |-> msg.state, pipe |-> w]),
                                !.read[w] = @ + 1],
                      Tail(items), w)
             ELSE IF msg.tag = _RESULT
             THEN LET r == IngestResult(c.buffer, msg.score, msg.history)
                  IN  Commands_SkipOthers([c EXCEPT !.ok = r.ok, !.buffer = r.buffer,
                                                    !.results = @ + Len(msg.history),
                                                    !.inserts = @ + r.inserts],
                                          Tail(items), w)
             ELSE Commands_SkipOthers(c, Tail(items), w)

\* lines 103-143 over the messages of one list read from worker w; c is
\* [ok, states, buffer, read, results, inserts]
RECURSIVE Commands(_, _, _)
Commands(c, items, w) ==
    IF items = <<>> \/ ~c.ok THEN c
    ELSE LET msg == Head(items)
         IN  IF msg.tag = _EVALUATE
             THEN Commands([c EXCEPT !.states = Append(@, [state |-> msg.state, pipe |-> w]),
                                     !.read[w] = @ + 1],
                           Tail(items), w)
             ELSE IF msg.tag = _RESULT
             THEN LET r == IngestResult(c.buffer, msg.score, msg.history)
                  IN  Commands([c EXCEPT !.ok = r.ok, !.buffer = r.buffer,
                                         !.results = @ + Len(msg.history),
                                         !.inserts = @ + r.inserts],
                               Tail(items), w)
             ELSE [c EXCEPT !.ok = FALSE]

\* line 100-143 over the ready pipes, in the order of pipes
RECURSIVE Drain(_, _, _)
Drain(c, ready, w) ==
    IF w > NWorkers \/ ~c.ok THEN c
    ELSE IF w \notin ready THEN Drain(c, ready, w + 1)
    ELSE LET object == Head(toCoord[w])
         IN  IF object.kind # "list" THEN [c EXCEPT !.ok = FALSE]
             ELSE Drain(Commands(c, object.items, w), ready, w + 1)

\* wait(pipes, 1) and the loop over the pipes it returned (lines 91-143)
CoordReceive ==
    /\ co.pc = "wait"
    /\ co.step < TotalSteps
    /\ \E ready \in SUBSET {w \in Workers : toCoord[w] # <<>>} :
          LET c == Drain([ok |-> TRUE, states |-> <<>>, buffer |-> buffer,
                          read |-> [w \in Workers |-> 0], results |-> 0,
                          inserts |-> 0], ready, 1)
          IN  /\ toCoord' = [w \in Workers |->
                                IF w \in ready THEN Tail(toCoord[w]) ELSE toCoord[w]]
              /\ buffer' = c.buffer
              /\ co' = [co EXCEPT !.pc = IF c.ok THEN "evaluate" ELSE "crashed",
                                  !.states_for_evaluation = c.states,
                                  !.wrappers = [w \in Workers |-> <<>>],
                                  !.read = c.read,
                                  !.written = [w \in Workers |-> 0],
                                  !.results = c.results,
                                  !.inserts = c.inserts]
    /\ UNCHANGED <<game, worker_concurrency, evaluations, toWorker, wk, insts, inserted, sampled>>

\* model(evaluation_features): the value (thousandths) and the priors of a state
Evaluator(state) ==
    [value |-> 0,
     priors |-> [move \in 0 .. state._columns - 1 |-> PriorScale \div state._columns]]

\* every column is listed, its top cell free or not
Expansion_AllColumns(state, priors) ==
    LET denom == SumSeq([j \in 1 .. Columns |-> priors[j - 1]])
    IN  [j \in 1 .. Columns |->
            [move |-> j - 1, state |-> play(state, j - 1),
             prior |-> (priors[j - 1] * PriorScale) \div denom]]

\* lines 158-163: the priors of the legal moves, renormalised
Expansion(state, priors) ==
    LET legal == moves(state)
        denom == SumSeq([j \in 1 .. Len(legal) |-> priors[legal[j]]])
    IN  [j \in 1 .. Len(legal) |->
            [move |-> legal[j], state |-> play(state, legal[j]),
             prior |-> (priors[legal[j]] * PriorScale) \div denom]]

\* every state is answered twice
RECURSIVE SendEvaluations_Twice(_, _)
SendEvaluations_Twice(e, states) ==
    IF states = <<>> THEN e
    ELSE LET w == Head(states).pipe
             ev == Evaluator(Head(states).state)
             msg == EvaluationMsg(ev.value, Expansion(Head(states).state, ev.priors))
             bp == BP_send(BP_send([pipe |-> e.pipes[w], _buffer |-> e.wrappers[w]], msg),
                           msg)
         IN  SendEvaluations_Twice([pipes |-> [e.pipes EXCEPT ![w] = bp.pipe],
                                    wrappers |-> [e.wrappers EXCEPT ![w] = bp._buffer],
                                    written |-> e.written],
                                   Tail(states))

\* lines 157-165: the EVALUATION of every state goes to the wrapper of its pipe;
\* e is [pipes, wrappers, written]
RECURSIVE SendEvaluations(_, _)
SendEvaluations(e, states) ==
    IF states = <<>> THEN e
    ELSE LET w == Head(states).pipe
             ev == Evaluator(Head(states).state)
             bp == BP_send([pipe |-> e.pipes[w], _buffer |-> e.wrappers[w]],
                           EvaluationMsg(ev.value,
                                         Expansion(Head(states).state, ev.priors)))
         IN  SendEvaluations([pipes |-> [e.pipes EXCEPT ![w] = bp.pipe],
                              wrappers |-> [e.wrappers EXCEPT ![w] = bp._buffer],
                              written |-> [e.written EXCEPT ![w] =
                                              IF Len(bp.pipe) > Len(e.pipes[w])
                                              THEN @ + Len(bp.pipe[Len(bp.pipe)].items)
                                              ELSE @]],
                             Tail(states))

\* the wrappers are not flushed
FlushAll_Nothing(e, states) == e

\* lines 167-168: every wrapper is flushed
RECURSIVE FlushAll(_, _)
FlushAll(e, states) ==
    IF states = <<>> THEN e
    ELSE LET w == Head(states).pipe
             bp == BP_flush([pipe |-> e.pipes[w], _buffer |-> e.wrappers[w]])
         IN  FlushAll([pipes |-> [e.pipes EXCEPT ![w] = bp.pipe],
                       wrappers |-> [e.wrappers EXCEPT ![w] = bp._buffer],
                       written |-> [e.written EXCEPT ![w] = @ + Len(e.wrappers[w])]],
                      Tail(states))

Reverse(q) == [i \in 1 .. Len(q) |-> q[Len(q) + 1 - i]]

\* the responses are emitted in the reverse of the arrival order
CoordEvaluate_Reversed ==
    /\ co.pc = "evaluate"
    /\ LET e == FlushAll(SendEvaluations([pipes |-> toWorker, wrappers |-> co.wrappers,
                                          written |-> co.written],
                                         Reverse(co.states_for_evaluation)),
                         co.states_for_evaluation)
       IN  /\ toWorker' = e.pipes
           /\ co' = [co EXCEPT !.pc = "train", !.wrappers = e.wrappers,
                               !.written = e.written]
    /\ UNCHANGED <<game, worker_concurrency, evaluations, toCoord, wk, insts, buffer,
                   inserted, sampled>>

\* lines 149-170
CoordEvaluate ==
    /\ co.pc = "evaluate"
    /\ LET e == FlushAll(SendEvaluations([pipes |-> toWorker, wrappers |-> co.wrappers,
                                          written |-> co.written],
                                         co.states_for_evaluation),
                         co.states_for_evaluation)
       IN  /\ toWorker' = e.pipes
           /\ co' = [co EXCEPT !.pc = "train", !.wrappers = e.wrappers,
                               !.written = e.written]
    /\ UNCHANGED <<game, worker_concurrency, evaluations, toCoord, wk, insts, buffer, inserted, sampled>>

\* the step is taken whatever the buffer holds
CoordTrain_NoUnderflowCheck ==
    /\ co.pc = "train"
    /\ co' = [co EXCEPT !.pc = "wait", !.step = @ + 1, !.optimizer_steps = @ + 1]
    /\ UNCHANGED <<game, worker_concurrency, evaluations, toCoord, toWorker, wk, insts, buffer,
                   inserted, sampled>>

\* lines 172-218: the optimizer step, or the skip on underflow
CoordTrain ==
    /\ co.pc = "train"
    /\ IF len(buffer) >= 4 * BatchSize
       THEN \* features and labels are locals that the optimizer step consumes
            \E indices \in sample_choices(buffer, BatchSize) :
               /\ Len(sample(buffer, indices).features) = BatchSize
               /\ co' = [co EXCEPT !.pc = "wait", !.step = @ + 1,
                                   !.optimizer_steps = @ + 1]
       ELSE co' = [co EXCEPT !.pc = "wait"]
    /\ UNCHANGED <<game, worker_concurrency, evaluations, toCoord, toWorker, wk, insts, buffer,
                   inserted, sampled>>

\* lines 220-231: pipes holds the raw Connections: send() writes the bare tuple
\* to the first one, whose flush() does not exist (AttributeError)
CoordTerminate ==
    /\ co.pc = "wait"
    /\ co.step >= TotalSteps
    /\ toWorker' = [toWorker EXCEPT ![1] = Append(@, TupleObject(TerminateMsg))]
    /\ co' = [co EXCEPT !.pc = "crashed"]
    /\ UNCHANGED <<game, worker_concurrency, evaluations, toCoord, wk, insts, buffer, inserted, sampled>>

(***************************************************************************)
(* The system.                                                             *)
(***************************************************************************)
Init ==
    /\ game = NoGame
    /\ worker_concurrency \in 0 .. MaxK
    /\ evaluations \in 1 .. MaxEvaluations
    /\ toCoord = [w \in Workers |-> <<>>]
    /\ toWorker = [w \in Workers |-> <<>>]
    /\ wk = [w \in Workers |-> WorkerInit(worker_concurrency)]
    /\ insts = [w \in Workers |-> [i \in 1 .. worker_concurrency |-> MCTS(InitialState)]]
    /\ co = CoordInit
    /\ buffer = ReplayBufferNew(BufferSize)
    /\ inserted = <<>>
    /\ sampled = NoSample

Next ==
    \/ \E w \in Workers : WorkerStart(w)
    \/ \E w \in Workers : WorkerSelect(w)
    \/ \E w \in Workers : WorkerRecv(w)
    \/ CoordReceive
    \/ CoordEvaluate
    \/ CoordTrain
    \/ CoordTerminate

Spec == Init /\ [][Next]_vars

(***************************************************************************)
(* The replay buffer on its own: any max_size from 1 to MaxBuffer, any     *)
(* sequence of insert and sample calls.                                    *)
(***************************************************************************)
\* the examples handed to insert: a position and the label of its turn
Examples ==
    {[features |-> position(InitialState), label |-> Label(1, <<>>)],
     [features |-> position(play(InitialState, 0)), label |-> Label(-1, <<>>)]}

InitRB ==
    /\ game = NoGame
    /\ worker_concurrency = 0
    /\ evaluations = 1
    /\ toCoord = [w \in Workers |-> <<>>]
    /\ toWorker = [w \in Workers |-> <<>>]
    /\ wk = [w \in Workers |-> WorkerInit(0)]
    /\ insts = [w \in Workers |-> <<>>]
    /\ co = CoordInit
    /\ \E max_size \in 1 .. MaxBuffer : buffer = ReplayBufferNew(max_size)
    /\ inserted = <<>>
    /\ sampled = NoSample

RBInsert ==
    /\ Len(inserted) < MaxInserts
    /\ \E ex \in Examples :
          /\ buffer' = insert(buffer, ex.features, ex.label)
          /\ inserted' = Append(inserted, ex)
    /\ sampled' = NoSample
    /\ UNCHANGED <<game, worker_concurrency, evaluations, toCoord, toWorker, wk, insts, co>>

RBSample ==
    /\ \E size \in 0 .. MaxSample :
          \E indices \in sample_choices(buffer, size) :
             LET got == sample(buffer, indices)
             IN  sampled' = [requested |-> size, features |-> got.features,
                             labels |-> got.labels, indices |-> got.indices]
    /\ UNCHANGED <<game, worker_concurrency, evaluations, toCoord, toWorker, wk, insts, co,
                   buffer, inserted>>

NextRB == RBInsert \/ RBSample

SpecRB == InitRB /\ [][NextRB]_vars

(***************************************************************************)
(* ConnectK on its own: a game played by hand from the empty board of any  *)
(* geometry, every play() called on the object the last one returned.      *)
(***************************************************************************)
InitGame ==
    /\ \E rows \in 1 .. MaxRows, columns \in 1 .. MaxColumns, k \in 1 .. MaxConnect :
          game = [heap |-> <<[p0 |-> {}, p1 |-> {}]>>,
                  path |-> <<[_rows |-> rows, _columns |-> columns, _k |-> k,
                              _position |-> 1, _outcome |-> None]>>,
                  moves |-> <<>>]
    /\ worker_concurrency = 0
    /\ evaluations = 1
    /\ toCoord = [w \in Workers |-> <<>>]
    /\ toWorker = [w \in Workers |-> <<>>]
    /\ wk = [w \in Workers |-> WorkerInit(0)]
    /\ insts = [w \in Workers |-> <<>>]
    /\ co = CoordInit
    /\ buffer = ReplayBufferNew(BufferSize)
    /\ inserted = <<>>
    /\ sampled = NoSample

\* the object the next play() is called on, and the state it stands for
Current == game.path[Len(game.path)]

CurrentState == Deref(game.heap, Current)

GamePlay ==
    /\ Len(game.moves) < MaxPlays
    /\ \E j \in 1 .. Len(moves(CurrentState)) :
          LET column == moves(CurrentState)[j]
              r == play_object(game.heap, Current, column)
          IN  game' = [heap |-> r.heap,
                       path |-> Append(game.path, r.child),
                       moves |-> Append(game.moves, column)]
    /\ UNCHANGED <<worker_concurrency, evaluations, toCoord, toWorker, wk, insts, co,
                   buffer, inserted, sampled>>

NextGame == GamePlay

SpecGame == InitGame /\ [][NextGame]_vars

(***************************************************************************)
(* The receive loops under arbitrary traffic: when the processes start, the *)
(* peer of train() on the first pipe and the peer of its worker have each  *)
(* written one list of messages of any tag, or nothing.                    *)
(***************************************************************************)
AnyTag == {_TERMINATE, _EVALUATE, _EVALUATION, _RESULT, _RESULT + 1}

\* a well-formed message of the tag, about the initial state
MessageOf(tag) ==
    IF tag = _EVALUATE THEN EvaluateMsg(InitialState)
    ELSE IF tag = _EVALUATION
    THEN EvaluationMsg(Evaluator(InitialState).value,
                       Expansion(InitialState, Evaluator(InitialState).priors))
    ELSE IF tag = _RESULT
    THEN ResultMsg(ValueScale, <<[state |-> InitialState, search_probabilities |-> <<>>]>>)
    ELSE Message(tag, InitialState, 0, <<>>, 0, <<>>)

\* what a pipe may hold: nothing, or one list of 1 to n messages
Traffic(n) ==
    {<<>>} \cup
    {<<ListObject([j \in 1 .. Len(tags) |-> MessageOf(tags[j])])>> :
        tags \in UNION {[1 .. l -> AnyTag] : l \in 1 .. n}}

InitProto ==
    /\ game = NoGame
    /\ worker_concurrency \in 1 .. MaxK
    /\ evaluations = 1
    /\ \E t \in Traffic(MaxCoordBatch) :
          toCoord = [w \in Workers |-> IF w = 1 THEN t ELSE <<>>]
    /\ \E t \in Traffic(MaxWorkerBatch) :
          toWorker = [w \in Workers |-> IF w = 1 THEN t ELSE <<>>]
    /\ wk = [w \in Workers |-> WorkerInit(worker_concurrency)]
    /\ insts = [w \in Workers |-> [i \in 1 .. worker_concurrency |-> MCTS(InitialState)]]
    /\ co = CoordInit
    /\ buffer = ReplayBufferNew(BufferSize)
    /\ inserted = <<>>
    /\ sampled = NoSample

NextProto ==
    \/ \E w \in Workers : WorkerStart(w)
    \/ \E w \in Workers : WorkerSelect(w)
    \/ \E w \in Workers : WorkerRecv(w)
    \/ CoordReceive

SpecProto == InitProto /\ [][NextProto]_vars

(***************************************************************************)
(* One MCTS instance on its own, driven by any sequence of select_leaf,    *)
(* expand_leaf and move_proportional calls.  It is instance 1 of worker 1; *)
(* the leaves select_leaf returned that are not expanded yet are kept in   *)
(* pending_evaluation, and a None result is noted in requeue, as _worker   *)
(* does.  The evaluator of train() supplies the values and the children.   *)
(***************************************************************************)
TheMCTS == insts[1][1]

InFlight == wk[1].pending_evaluation

InitMCTS ==
    /\ game = NoGame
    /\ worker_concurrency = 1
    /\ evaluations = 1
    /\ toCoord = [w \in Workers |-> <<>>]
    /\ toWorker = [w \in Workers |-> <<>>]
    /\ wk = [w \in Workers |->
                IF w = 1 THEN [WorkerInit(0) EXCEPT !.pc = "select"] ELSE WorkerInit(0)]
    /\ \E columns \in 1 .. MCTSColumns, k \in 2 .. MaxConnect :
          insts = [w \in Workers |->
                      IF w = 1 THEN <<MCTS(ConnectK(1, columns, k))>> ELSE <<>>]
    /\ co = CoordInit
    /\ buffer = ReplayBufferNew(BufferSize)
    /\ inserted = <<>>
    /\ sampled = NoSample

\* leaf_and_state = mcts.select_leaf() (lines 271-274)
MCTSSelect ==
    /\ wk[1].pc = "select"
    /\ ~complete(TheMCTS)
    /\ Len(InFlight) < MaxInFlight
    /\ searches_this_turn(TheMCTS) + Len(InFlight) < MaxSearches
    /\ LET sel == select_leaf(TheMCTS)
       IN  IF sel.leaf = NoLeaf
           THEN /\ Len(wk[1].requeue) < MaxRequeue
                /\ wk' = [wk EXCEPT ![1].requeue = Append(@, 1)]
                /\ insts' = [insts EXCEPT ![1][1] = sel.mcts]
           ELSE /\ wk' = [wk EXCEPT ![1].pending_evaluation = Append(@, <<1, sel.leaf>>)]
                /\ insts' = [insts EXCEPT ![1][1] = sel.mcts]
    /\ UNCHANGED <<game, worker_concurrency, evaluations, toCoord, toWorker, co, buffer,
                   inserted, sampled>>

\* mcts.expand_leaf(leaf, ...) for one of the leaves in flight: with its
\* outcome and no children when its state is terminal (line 279), with the
\* evaluation of its state otherwise (lines 158-165, 296-299); requeue was
\* emptied before (lines 285, 251)
MCTSExpand ==
    /\ wk[1].pc = "select"
    /\ \E q \in 1 .. Len(InFlight) :
          LET leaf == InFlight[q][2]
              state == TheMCTS.tree[leaf].state
              rest == SubSeq(InFlight, 1, q - 1) \o SubSeq(InFlight, q + 1, Len(InFlight))
          IN  IF ExpandError(TheMCTS, leaf)
              THEN /\ wk' = [wk EXCEPT ![1].pc = "crashed", ![1].requeue = <<>>,
                                       ![1].pending_evaluation = rest]
                   /\ UNCHANGED insts
              ELSE /\ wk' = [wk EXCEPT ![1].requeue = <<>>, ![1].pending_evaluation = rest]
                   /\ insts' = [insts EXCEPT ![1][1] =
                                   IF outcome(state) # None
                                   THEN expand_leaf(@, leaf, outcome(state) * ValueScale, <<>>)
                                   ELSE expand_leaf(@, leaf, Evaluator(state).value,
                                                    Expansion(state, Evaluator(state).priors))]
    /\ UNCHANGED <<game, worker_concurrency, evaluations, toCoord, toWorker, co, buffer,
                   inserted, sampled>>

\* mcts.move_proportional() (line 259), called as _worker calls it: on an
\* instance that has no leaf in flight
MCTSMove ==
    /\ wk[1].pc = "select"
    /\ InFlight = <<>>
    /\ TheMCTS.tree[Root].expanded
    /\ \E j \in MoveChoices(TheMCTS) :
          insts' = [insts EXCEPT ![1][1] = move_proportional(@, j)]
    /\ wk' = [wk EXCEPT ![1].requeue = <<>>]
    /\ UNCHANGED <<game, worker_concurrency, evaluations, toCoord, toWorker, co, buffer,
                   inserted, sampled>>

NextMCTS == MCTSSelect \/ MCTSExpand \/ MCTSMove

SpecMCTS == InitMCTS /\ [][NextMCTS]_vars

(***************************************************************************)
(* _BufferedPipe on its own: the wrapper of worker 1's pipe, with send and *)
(* flush called by hand.  inserted records the objects handed to send, in  *)
(* order; the k-th is told from the others by its value k.                 *)
(***************************************************************************)
MaxSends == 98

MaxFlushes == 2

InitBP ==
    /\ game = NoGame
    /\ worker_concurrency = 0
    /\ evaluations = 1
    /\ toCoord = [w \in Workers |-> <<>>]
    /\ toWorker = [w \in Workers |-> <<>>]
    /\ wk = [w \in Workers |-> WorkerInit(0)]
    /\ insts = [w \in Workers |-> <<>>]
    /\ co = CoordInit
    /\ buffer = ReplayBufferNew(1)
    /\ inserted = <<>>
    /\ sampled = NoSample

\* the lists that a flush wrote: those shorter than the batch limit
Flushes == {i \in 1 .. Len(toCoord[1]) : Len(toCoord[1][i].items) < BatchLimit}

BPSend ==
    /\ Len(inserted) < MaxSends
    /\ \E object \in {Message(_EVALUATE, InitialState, Len(inserted) + 1, <<>>, 0, <<>>)} :
          \E bp \in {BP_send([pipe |-> toCoord[1], _buffer |-> wk[1]._buffer], object)} :
             /\ toCoord' = [toCoord EXCEPT ![1] = bp.pipe]
             /\ wk' = [wk EXCEPT ![1]._buffer = bp._buffer]
             /\ inserted' = Append(inserted, object)
    /\ UNCHANGED <<game, worker_concurrency, evaluations, toWorker, insts, co, buffer, sampled>>

BPFlush ==
    /\ Cardinality(Flushes) < MaxFlushes
    /\ \E bp \in {BP_flush([pipe |-> toCoord[1], _buffer |-> wk[1]._buffer])} :
          /\ toCoord' = [toCoord EXCEPT ![1] = bp.pipe]
          /\ wk' = [wk EXCEPT ![1]._buffer = bp._buffer]
    /\ UNCHANGED <<game, worker_concurrency, evaluations, toWorker, insts, co, buffer,
                   inserted, sampled>>

NextBP == BPSend \/ BPFlush

SpecBP == InitBP /\ [][NextBP]_vars

(***************************************************************************)
(* The flow of messages for any worker_concurrency, above the batch limit  *)
(* of _BufferedPipe too.  Of an MCTS instance the worker keeps what        *)
(* decides its next selection turn only: "fresh" (new or reset: its root   *)
(* is selected and sent for evaluation) or "searched" (a leaf was          *)
(* expanded: the turn may end the game, select a terminal leaf or select a *)
(* leaf to evaluate).  Which of the three happens is chosen per pass of    *)
(* the selection loop, for the first instance popped and for the others.   *)
(* Of the replay buffer train() keeps the number of examples.  A loop over *)
(* a queue or a list is given by what it has done when it ends.            *)
(***************************************************************************)
Verdicts == {"evaluate", "terminal", "finish"}

\* a message is its tag
FlowMsg(tag) == [tag |-> tag]

\* a deque(maxlen) after appends that made it q: the last maxlen entries
DequeKeep(q, maxlen) ==
    IF Len(q) <= maxlen THEN q ELSE SubSeq(q, Len(q) - maxlen + 1, Len(q))

\* _BufferedPipe.send for each of msgs in order: a list of BatchLimit
\* messages is written whenever the buffer reaches that length
BP_sends(bp, msgs) ==
    LET all == bp._buffer \o msgs
        lists == Len(all) \div BatchLimit
    IN  [pipe |-> bp.pipe \o
                    [c \in 1 .. lists |->
                        ListObject(SubSeq(all, BatchLimit * (c - 1) + 1, BatchLimit * c))],
         _buffer |-> SubSeq(all, BatchLimit * lists + 1, Len(all))]

\* what the turn of the inner while loop (lines 253-283) that pops instance
\* i does, in a pass that found pending_selection = queue
FlowVerdict(mctss, queue, i, first, rest) ==
    IF mctss[i] = "fresh" THEN "evaluate"
    ELSE IF i = Head(queue) THEN first
    ELSE rest

\* the verdicts of a pass, for the first instance popped and for the others;
\* above the batch limit every turn selects a leaf to evaluate
FlowVerdicts(k) ==
    IF k > BatchLimit THEN {<<"evaluate", "evaluate">>}
    ELSE Verdicts \X Verdicts

\* the inner while loop, the requeue and the flush (lines 253-287) of a pass
\* that found pending_selection = w_.pending_selection
FlowPass(w_, mctss, pipe, first, rest, maxlen) ==
    LET queue == w_.pending_selection
        verdict(i) == FlowVerdict(mctss, queue, i, first, rest)
        senders == SelectSeq(queue, LAMBDA i : verdict(i) # "terminal")
        requeue == SelectSeq(queue, LAMBDA i : verdict(i) # "evaluate")
        leaves == SelectSeq(queue, LAMBDA i : verdict(i) = "evaluate")
        finished == {i \in DOMAIN mctss :
                        /\ \E k \in 1 .. Len(queue) : queue[k] = i
                        /\ verdict(i) = "finish"}
        bp == BP_flush(BP_sends([pipe |-> pipe, _buffer |-> w_._buffer],
                                [k \in 1 .. Len(senders) |->
                                    IF verdict(senders[k]) = "finish"
                                    THEN FlowMsg(_RESULT)
                                    ELSE FlowMsg(_EVALUATE)]))
    IN  [w_ |-> [w_ EXCEPT
                   !.pending_selection = DequeKeep(requeue, maxlen),
                   !.requeue = <<>>,
                   !.pending_evaluation =
                       DequeKeep(@ \o [k \in 1 .. Len(leaves) |-> <<leaves[k], Root>>],
                                 maxlen),
                   !._buffer = bp._buffer],
         mctss |-> [i \in DOMAIN mctss |-> IF i \in finished THEN "fresh" ELSE mctss[i]],
         pipe |-> bp.pipe]

\* one iteration of the outer loop up to recv (lines 251-289)
FlowSelect(w) ==
    /\ wk[w].pc = "select"
    /\ \E v \in FlowVerdicts(worker_concurrency) :
          \E out \in {FlowPass(wk[w], insts[w], toCoord[w], v[1], v[2],
                               worker_concurrency)} :
              /\ wk' = [wk EXCEPT ![w] = IF Len(out.w_.pending_evaluation) > 0
                                         THEN [out.w_ EXCEPT !.pc = "recv"]
                                         ELSE LoopTest(out.w_)]
              /\ insts' = [insts EXCEPT ![w] = out.mctss]
              /\ toCoord' = [toCoord EXCEPT ![w] = out.pipe]
    /\ UNCHANGED <<game, worker_concurrency, evaluations, toWorker, co, buffer, inserted, sampled>>

\* the for loop over the messages of a received list (lines 290-301): the
\* EVALUATIONs before the first other message are applied while
\* pending_evaluation has a leaf for them
FlowBatch(w_, mctss, items, maxlen) ==
    LET others == {j \in 1 .. Len(items) : items[j].tag # _EVALUATION}
        stop == IF others = {} THEN Len(items) + 1
                ELSE CHOOSE j \in others : \A k \in others : j <= k
        applied == Min(stop - 1, Len(w_.pending_evaluation))
        expanded == {w_.pending_evaluation[k][1] : k \in 1 .. applied}
        after == [w_ EXCEPT
                    !.pending_evaluation = SubSeq(@, applied + 1, Len(@)),
                    !.pending_selection =
                        DequeKeep(@ \o [k \in 1 .. applied |-> w_.pending_evaluation[k][1]],
                                  maxlen)]
    IN  [w_ |-> IF applied < stop - 1 THEN [after EXCEPT !.pc = "crashed"]
                ELSE IF stop > Len(items) THEN LoopTest(after)
                ELSE IF items[stop].tag = _TERMINATE
                THEN [after EXCEPT !.pc = "returned", !.got_terminate = TRUE]
                ELSE [after EXCEPT !.pc = "crashed"],
         mctss |-> [i \in DOMAIN mctss |-> IF i \in expanded THEN "searched" ELSE mctss[i]]]

\* pipe.recv() and the for loop over what it returned
FlowRecv(w) ==
    /\ wk[w].pc = "recv"
    /\ toWorker[w] # <<>>
    /\ IF Head(toWorker[w]).kind # "list"
       THEN /\ wk' = [wk EXCEPT ![w].pc = "crashed"]
            /\ UNCHANGED insts
       ELSE \E done \in {FlowBatch(wk[w], insts[w], Head(toWorker[w]).items,
                                   worker_concurrency)} :
                /\ wk' = [wk EXCEPT ![w] = done.w_]
                /\ insts' = [insts EXCEPT ![w] = done.mctss]
    /\ toWorker' = [toWorker EXCEPT ![w] = Tail(@)]
    /\ UNCHANGED <<game, worker_concurrency, evaluations, toCoord, co, buffer, inserted, sampled>>

\* the EVALUATE commands of the list read from pipe w (lines 104-106)
FlowStates(w) ==
    LET asked == SelectSeq(Head(toCoord[w]).items, LAMBDA msg : msg.tag = _EVALUATE)
    IN  [k \in 1 .. Len(asked) |-> [pipe |-> w]]

\* the number of RESULT commands of the list read from pipe w (lines 107-140)
FlowResults(w) ==
    Len(SelectSeq(Head(toCoord[w]).items, LAMBDA msg : msg.tag = _RESULT))

\* wait(pipes, 1) and the loop over the pipes it returned (lines 91-143)
FlowReceive ==
    /\ co.pc = "wait"
    /\ co.step < TotalSteps
    /\ \E ready \in SUBSET {w \in Workers : toCoord[w] # <<>>} :
          LET ok == \A w \in ready :
                       /\ Head(toCoord[w]).kind = "list"
                       /\ \A j \in 1 .. Len(Head(toCoord[w]).items) :
                             Head(toCoord[w]).items[j].tag \in {_EVALUATE, _RESULT}
          IN  /\ toCoord' = [w \in Workers |->
                                IF w \in ready THEN Tail(toCoord[w]) ELSE toCoord[w]]
              /\ buffer' = Min(BufferSize,
                               buffer + SumSeq([w \in 1 .. NWorkers |->
                                                   IF w \in ready THEN FlowResults(w)
                                                   ELSE 0]))
              /\ co' = [co EXCEPT !.pc = IF ok THEN "evaluate" ELSE "crashed",
                                  !.states_for_evaluation =
                                      Concat([w \in 1 .. NWorkers |->
                                                 IF w \in ready THEN FlowStates(w)
                                                 ELSE <<>>]),
                                  !.wrappers = [w \in Workers |-> <<>>]]
    /\ UNCHANGED <<game, worker_concurrency, evaluations, toWorker, wk, insts, inserted, sampled>>

\* the wrapper is not flushed
FlowAnswers_NoFlush(pipe, wrapper, states, w) ==
    LET asked == SelectSeq(states, LAMBDA s : s.pipe = w)
    IN  BP_sends([pipe |-> pipe, _buffer |-> wrapper],
                 [k \in 1 .. Len(asked) |-> FlowMsg(_EVALUATION)])

\* lines 157-168 for pipe w: the EVALUATION of every state of the pipe goes
\* to its wrapper, which is then flushed
FlowAnswers(pipe, wrapper, states, w) ==
    LET asked == SelectSeq(states, LAMBDA s : s.pipe = w)
    IN  BP_flush(BP_sends([pipe |-> pipe, _buffer |-> wrapper],
                          [k \in 1 .. Len(asked) |-> FlowMsg(_EVALUATION)]))

\* lines 149-170
FlowEvaluate ==
    /\ co.pc = "evaluate"
    /\ \E bp \in {[w \in Workers |-> FlowAnswers(toWorker[w], co.wrappers[w],
                                                 co.states_for_evaluation, w)]} :
          /\ toWorker' = [w \in Workers |-> bp[w].pipe]
          /\ co' = [co EXCEPT !.pc = "train",
                              !.wrappers = [w \in Workers |-> bp[w]._buffer]]
    /\ UNCHANGED <<game, worker_concurrency, evaluations, toCoord, wk, insts, buffer, inserted, sampled>>

\* lines 172-218: the optimizer step, or the skip on underflow
FlowTrain ==
    /\ co.pc = "train"
    /\ co' = [co EXCEPT !.pc = "wait",
                        !.step = IF buffer >= 4 * BatchSize THEN @ + 1 ELSE @]
    /\ UNCHANGED <<game, worker_concurrency, evaluations, toCoord, toWorker, wk, insts, buffer,
                   inserted, sampled>>

InitFlow ==
    /\ game = NoGame
    /\ worker_concurrency \in {1, BatchLimit + 1}
    /\ evaluations = 1
    /\ toCoord = [w \in Workers |-> <<>>]
    /\ toWorker = [w \in Workers |-> <<>>]
    /\ wk = [w \in Workers |-> WorkerInit(worker_concurrency)]
    /\ insts = [w \in Workers |-> [i \in 1 .. worker_concurrency |-> "fresh"]]
    /\ co = CoordInit
    /\ buffer = 0
    /\ inserted = <<>>
    /\ sampled = NoSample

\* wait(pipes, 1) returns the pipe of w, which holds a list
FlowReceiveFrom(w) == FlowReceive /\ toCoord'[w] # toCoord[w]

NextFlow ==
    \/ \E w \in Workers : WorkerStart(w)
    \/ \E w \in Workers : FlowSelect(w)
    \/ \E w \in Workers : FlowRecv(w)
    \/ FlowReceive
    \/ FlowEvaluate
    \/ FlowTrain
    \/ CoordTerminate

\* every process runs on (weak fairness of its steps), and a pipe that holds
\* a list when train() calls wait is among the pipes wait returns (strong
\* fairness of FlowReceiveFrom).  For the steps over whole lists,
\* WF_vars(A) is written as []<>~E \/ []<><<A>>_vars and SF_vars(A) as
\* <>[]~E \/ []<><<A>>_vars, where E is the guard of A, which is
\* ENABLED <<A>>_vars
FairFlow ==
    /\ \A w \in Workers :
          /\ WF_vars(WorkerStart(w))
          /\ \/ []<>(wk[w].pc # "select")
             \/ []<><<FlowSelect(w)>>_vars
          /\ \/ []<>(~(wk[w].pc = "recv" /\ toWorker[w] # <<>>))
             \/ []<><<FlowRecv(w)>>_vars
          /\ \/ <>[](~(co.pc = "wait" /\ co.step < TotalSteps /\ toCoord[w] # <<>>))
             \/ []<><<FlowReceiveFrom(w)>>_vars
    /\ \/ []<>(co.pc # "evaluate")
       \/ []<><<FlowEvaluate>>_vars
    /\ WF_vars(FlowTrain)
    /\ WF_vars(CoordTerminate)

SpecFlow == InitFlow /\ [][NextFlow]_vars /\ FairFlow

(***************************************************************************)
(* Properties of ConnectK.                                                 *)
(***************************************************************************)
\* the state play() was last called on, and the cell it put the piece on
Parent == Deref(game.heap, game.path[Len(game.path) - 1])

Placed == CHOOSE cell \in CurrentState.p1 : cell \notin Parent.p0

\* cell lies in a straight run of s._k pieces of plane 1 (the player who moved)
CompletesRun(s, cell) ==
    \E d \in {<<1, 0>>, <<0, 1>>, <<1, 1>>, <<1, -1>>} :
        \E o \in 0 .. s._k - 1 :
            \A i \in 0 .. s._k - 1 :
                <<cell[1] + (i - o) * d[1], cell[2] + (i - o) * d[2]>> \in s.p1

BoardFull(s) == Cells(s) \subseteq (s.p0 \cup s.p1)

\* C15: the state play() returned has outcome -1 when the piece just placed
\* completes a run of k of the mover's pieces, and outcome None when it
\* neither completes a run nor fills the board
C15_WinReported ==
    Len(game.path) >= 2 =>
        /\ CompletesRun(CurrentState, Placed) => outcome(CurrentState) = -1
        /\ (~CompletesRun(CurrentState, Placed) /\ ~BoardFull(CurrentState)) =>
               outcome(CurrentState) = None

\* the top row of s is full
TopRowFull(s) == \A c \in 0 .. s._columns - 1 : _occupied(s, 0, c)

\* C16: in every state reached from the empty board by legal moves, moves() is
\* empty exactly when outcome() is not None; a full top row is terminal
C16_MovesIffLive ==
    \A i \in 1 .. Len(game.path) :
        LET s == Deref(game.heap, game.path[i])
        IN  /\ (moves(s) = <<>>) <=> (outcome(s) # None)
            /\ TopRowFull(s) => outcome(s) # None
            /\ outcome(s) = None => Len(moves(s)) >= 1

\* C16 witness: a board filled to the top without a run, the game drawn
C16_Witness ==
    /\ Len(game.path) >= 5
    /\ TopRowFull(CurrentState)
    /\ outcome(CurrentState) = 0
    /\ moves(CurrentState) = <<>>
    /\ ~CompletesRun(CurrentState, Placed)

\* C17, over one play(): every object that existed, the one play() was called
\* on included, stands for the same board, outcome and moves as before
C17_Step ==
    game'.path # game.path =>
        \A i \in 1 .. Len(game.path) :
            /\ game'.path[i] = game.path[i]
            /\ Deref(game'.heap, game.path[i]) = Deref(game.heap, game.path[i])
            /\ moves(Deref(game'.heap, game.path[i])) = moves(Deref(game.heap, game.path[i]))

\* C17: play(move) changes no state that existed before the call
C17_PlayIsPure == [][C17_Step]_vars

\* C17 witness: play() was called on a board that holds pieces of both players
C17_Witness ==
    /\ Len(game.path) >= 4
    /\ Parent.p0 # {}
    /\ Parent.p1 # {}
    /\ CurrentState.p1 # Parent.p0

(***************************************************************************)
(* Properties of the replay buffer.                                        *)
(***************************************************************************)
\* row i of the buffer as an example
Row(rb, i) == [features |-> rb._features[i], label |-> rb._labels[i]]

\* the examples a buffer of this capacity should hold after the inserts so far
Surviving(rb) ==
    SubSeq(inserted, Len(inserted) - Min(Len(inserted), rb._max_size) + 1, Len(inserted))

\* how often ex occurs in the sequence q
Occurrences(q, ex) == Cardinality({i \in 1 .. Len(q) : q[i] = ex})

\* C8, the state part: after k inserts len(buffer) = min(k, max_size) and the
\* rows stored in [0, size) are, with multiplicity, the last min(k, max_size)
\* inserted examples
C8_Holds ==
    /\ len(buffer) = Min(Len(inserted), buffer._max_size)
    /\ \A ex \in Examples :
          Occurrences([i \in 1 .. buffer._size |-> Row(buffer, i - 1)], ex)
              = Occurrences(Surviving(buffer), ex)

\* C8, the step part: an insert changes one row only, and at capacity that row
\* held the oldest surviving example
C8_Overwrite ==
    Len(inserted') = Len(inserted) + 1 =>
        \E j \in 0 .. buffer._max_size - 1 :
            /\ Row(buffer', j) = inserted'[Len(inserted')]
            /\ \A i \in 0 .. buffer._max_size - 1 : i # j => Row(buffer', i) = Row(buffer, i)
            /\ Len(inserted) >= buffer._max_size =>
                   /\ Row(buffer, j) = Surviving(buffer)[1]
                   /\ j = Len(inserted) % buffer._max_size

\* C8: for max_size >= 1, after any k inserts the buffer holds exactly the last
\* min(k, max_size) examples, and an insert beyond capacity overwrites the
\* oldest surviving example and no other row
C8_LastExamples == [](C8_Holds) /\ [][C8_Overwrite]_vars

\* C8 witness: a buffer of capacity >= 2 after two inserts beyond its capacity
C8_Witness ==
    /\ buffer._max_size >= 2
    /\ Len(inserted) >= buffer._max_size + 2
    /\ inserted[Len(inserted)] # inserted[Len(inserted) - 1]

\* C9, the state part: what sample(n) returned
C9_Returned ==
    sampled.requested >= 0 =>
        LET n == Min(sampled.requested, buffer._size)
        IN  /\ Len(sampled.indices) = n
            /\ Len(sampled.features) = n
            /\ Len(sampled.labels) = n
            /\ \A i, j \in 1 .. n : i # j => sampled.indices[i] # sampled.indices[j]
            /\ \A i \in 1 .. n :
                  /\ sampled.indices[i] \in 0 .. buffer._size - 1
                  /\ \E k \in 1 .. Len(Surviving(buffer)) :
                        Surviving(buffer)[k] = [features |-> sampled.features[i],
                                                label |-> sampled.labels[i]]
                  /\ sampled.labels[i] # ZeroLabel

\* C9: sample(n) returns min(n, size) rows at pairwise distinct indices of
\* [0, size), each an inserted example that has not been overwritten, and it
\* leaves the buffer as it was
C9_Sample ==
    /\ [](C9_Returned)
    /\ [][(sampled' # sampled /\ sampled'.requested >= 0) => buffer' = buffer]_vars

\* C9 witness: more rows were asked for than a wrapped buffer holds
C9_Witness ==
    /\ sampled.requested > buffer._size
    /\ buffer._size >= 2
    /\ Len(inserted) > buffer._max_size
    /\ Len(sampled.indices) = buffer._size

\* slot j was written: it no longer holds the zeros of __init__ (no example
\* has an all-zero label)
WrittenSlot(rb, j) == rb._labels[j] # ZeroLabel

\* C29, the state part: after k inserts the write index is k mod max_size,
\* the written slots are those of [0, min(k, max_size)), which is [0, size),
\* and while the buffer is not full the write index is size
C29_Prefix ==
    /\ buffer._max_size >= 1
    /\ buffer._oldest_index = Len(inserted) % buffer._max_size
    /\ \A j \in 0 .. buffer._max_size - 1 :
          WrittenSlot(buffer, j) <=> j < Min(Len(inserted), buffer._max_size)
    /\ buffer._size < buffer._max_size => buffer._oldest_index = buffer._size
    /\ \A j \in 0 .. buffer._size - 1 : WrittenSlot(buffer, j)

\* C29, the step part: insert writes the slot of the write index
C29_WriteSlot ==
    Len(inserted') = Len(inserted) + 1 =>
        /\ buffer._oldest_index \in 0 .. buffer._max_size - 1
        /\ Row(buffer', buffer._oldest_index) = inserted'[Len(inserted')]

\* C29: the write index is the number of inserts modulo max_size and the
\* written slots are a prefix, so that [0, size) holds written slots only
C29_WrittenPrefix == [](C29_Prefix) /\ [][C29_WriteSlot]_vars

\* C29 witness: the largest buffer, one insert after it became full
C29_Witness ==
    /\ buffer._max_size = MaxBuffer
    /\ Len(inserted) = MaxBuffer + 1
    /\ buffer._oldest_index = 1
    /\ buffer._size = MaxBuffer

(***************************************************************************)
(* Properties of the protocol.                                             *)
(***************************************************************************)
\* the messages of tag carried by the objects of a pipe, in order
Tagged(pipe, tag) ==
    LET IsTag(m) == m.tag = tag
    IN  Concat([i \in 1 .. Len(pipe) |-> SelectSeq(pipe[i].items, IsTag)])

\* the EVALUATIONs on their way to worker w
Answers(w) == Tagged(toWorker[w], _EVALUATION)

\* the states worker w asked for that are not answered yet: those train() has
\* read in this cycle, those in the Pipe, those in the worker's send buffer
Requests(w) ==
    LET FromW(e) == e.pipe = w
        held == IF co.pc = "evaluate"
                THEN SelectSeq(co.states_for_evaluation, FromW)
                ELSE <<>>
        sent == Tagged(toCoord[w], _EVALUATE) \o Tagged(<<ListObject(wk[w]._buffer)>>, _EVALUATE)
    IN  [k \in 1 .. Len(held) |-> held[k].state] \o [k \in 1 .. Len(sent) |-> sent[k].state]

\* the states of the leaves in pending_evaluation of worker w, in order
PendingStates(w) ==
    [k \in 1 .. Len(wk[w].pending_evaluation) |->
        insts[w][wk[w].pending_evaluation[k][1]].tree[wk[w].pending_evaluation[k][2]].state]

\* the EVALUATION msg is the one train() computes from state s
AnswerOf(msg, s) ==
    /\ msg.value = Evaluator(s).value
    /\ Len(msg.expansion) = Len(moves(s))
    /\ \A j \in 1 .. Len(msg.expansion) :
          /\ msg.expansion[j].move = moves(s)[j]
          /\ msg.expansion[j].state = play(s, moves(s)[j])

Terminal(s) == outcome(s) # None

\* C2: no EVALUATE in a send buffer, in a pipe or read by train() carries a
\* terminal state, no leaf awaiting an evaluation is terminal, and every
\* selection of a terminal leaf has been expanded by the worker itself: the
\* leaf is expanded with value outcome() and no children, and no visit of it is
\* pending
C2_NoTerminalEvaluate ==
    /\ \A w \in Workers :
          /\ \A k \in 1 .. Len(Requests(w)) : ~Terminal(Requests(w)[k])
          /\ \A k \in 1 .. Len(PendingStates(w)) : ~Terminal(PendingStates(w)[k])
          /\ \A i \in DOMAIN insts[w] : \A p \in DOMAIN insts[w][i].tree :
                LET node == insts[w][i].tree[p]
                IN  /\ (node.expanded /\ Terminal(node.state)) =>
                           /\ node.children = <<>>
                           /\ node.terminal_value = outcome(node.state) * ValueScale
                    /\ \A j \in 1 .. Len(node.children) :
                           LET q == Append(p, node.children[j].move)
                           IN  (q \in DOMAIN insts[w][i].tree
                                /\ Terminal(insts[w][i].tree[q].state)) =>
                                   /\ node.children[j].pending_visits = 0
                                   /\ (node.children[j].visits > 0 =>
                                          insts[w][i].tree[q].expanded)
    /\ \A k \in 1 .. Len(co.states_for_evaluation) :
          ~Terminal(co.states_for_evaluation[k].state)

\* C2 witness: a terminal leaf was selected and expanded by the worker alone
C2_Witness ==
    \E w \in Workers : \E i \in DOMAIN insts[w] : \E p \in DOMAIN insts[w][i].tree :
        /\ p # <<>>
        /\ Terminal(insts[w][i].tree[p].state)
        /\ insts[w][i].tree[p].expanded
        /\ insts[w][i].tree[p].terminal_value = -ValueScale
        /\ i \in {wk[w].pending_selection[k] : k \in 1 .. Len(wk[w].pending_selection)}

\* C3: once step has reached total_steps and the shutdown code has run, train()
\* has returned and every worker has stopped
C3_ShutdownCompletes ==
    (co.step >= TotalSteps /\ co.pc # "wait") =>
        /\ co.pc = "returned"
        /\ \A w \in Workers : wk[w].pc \in {"returned", "crashed", "killed"}

\* C4: for any worker_concurrency, a worker that has returned has read
\* TERMINATE from its pipe
C4_ReturnOnlyOnTerminate ==
    \A w \in Workers : wk[w].pc = "returned" => wk[w].got_terminate

\* C5: every object in a pipe, in either direction, is a list of 1 to 96 messages
C5_WireLists ==
    \A w \in Workers :
        /\ \A i \in 1 .. Len(toCoord[w]) :
              /\ toCoord[w][i].kind = "list"
              /\ Len(toCoord[w][i].items) \in 1 .. BatchLimit
        /\ \A i \in 1 .. Len(toWorker[w]) :
              /\ toWorker[w][i].kind = "list"
              /\ Len(toWorker[w][i].items) \in 1 .. BatchLimit

\* the EVALUATIONs train() writes to the pipe of worker w in a step
NewAnswers(w) ==
    SubSeq(Tagged(toWorker'[w], _EVALUATION), Len(Answers(w)) + 1,
           Len(Tagged(toWorker'[w], _EVALUATION)))

\* the states read from worker w that train() holds for evaluation, in order
HeldStates(w) ==
    LET FromW(e) == e.pipe = w
        held == SelectSeq(co.states_for_evaluation, FromW)
    IN  [k \in 1 .. Len(held) |-> held[k].state]

\* expansion lists the moves of s: exactly moves(s) in its order, no move
\* twice, no column whose top cell is taken, no free column left out, and
\* every child is s.play(move)
ListsTheMoves(expansion, s) ==
    /\ [j \in 1 .. Len(expansion) |-> expansion[j].move] = moves(s)
    /\ \A i, j \in 1 .. Len(expansion) : i < j => expansion[i].move < expansion[j].move
    /\ \A j \in 1 .. Len(expansion) :
          /\ expansion[j].move \in 0 .. s._columns - 1
          /\ ~_occupied(s, 0, expansion[j].move)
          /\ expansion[j].state = play(s, expansion[j].move)
          /\ expansion[j].state.p1 \ s.p0 =
                 {<<DropRow(s, expansion[j].move, 0), expansion[j].move>>}
    /\ \A c \in 0 .. s._columns - 1 :
          (outcome(s) = None /\ ~_occupied(s, 0, c)) =>
              \E j \in 1 .. Len(expansion) : expansion[j].move = c

\* C11, over the evaluate phase of train(): one EVALUATION is written per held
\* state, to the pipe the state came from and in the order of arrival, and its
\* expansion lists the moves of that state
C11_Step ==
    (co.pc = "evaluate" /\ co'.pc = "train") =>
        \A w \in Workers :
            \A new \in {NewAnswers(w)} : \A held \in {HeldStates(w)} :
                /\ Len(new) = Len(held)
                /\ \A k \in 1 .. Len(new) : ListsTheMoves(new[k].expansion, held[k])

\* C11: every EVALUATION train() emits for a state s lists exactly s.moves(),
\* each move once and in that order, with the child s.play(move)
C11_LegalExpansion == [][C11_Step]_vars

\* C11 witness: an EVALUATION is on a pipe whose state had a full column, so
\* that its expansion leaves a column out
C11_Witness ==
    /\ co.pc = "train"
    /\ \E w \in Workers : \E k \in 1 .. Len(Answers(w)) :
          /\ Len(Answers(w)[k].expansion) = Columns - 1
          /\ Answers(w)[k].expansion[1].move = 1
          /\ PendingStates(w)[k].p0 # {}

\* C12: no instance has had add_dirichlet_noise applied twice in its turn, and
\* an instance whose budget is spent, whose next selection turn commits the
\* move, has had it applied exactly once, on an expanded root
C12_NoiseOncePerTurn ==
    \A w \in Workers : \A i \in DOMAIN insts[w] :
        /\ insts[w][i].noise_this_turn <= 1
        /\ insts[w][i].noise_this_turn = 1 => insts[w][i].tree[Root].expanded
        /\ searches_this_turn(insts[w][i]) >= evaluations =>
               insts[w][i].noise_this_turn = 1

\* the RESULTs worker w has sent and train() has not read, the send buffer included
ResultsSent(pipe, buf) == Tagged(pipe \o <<ListObject(buf)>>, _RESULT)

\* the instances worker w pops in this pass of its selection loop that are due
\* to commit a move, in the order it pops them
Due(w) ==
    LET IsDue(i) == searches_this_turn(insts[w][i]) >= evaluations
    IN  SelectSeq(wk[w].pending_selection, IsDue)

\* the game of the instance mcts is over once the move of index j is committed
OverAfter(mcts, j) ==
    \/ complete(move_proportional(mcts, j))
    \/ turns(move_proportional(mcts, j)) >= MaxTurns

\* C13, over one pass of the selection loop of a worker: the RESULTs it sends
\* are one per instance that committed a move after which its game was over,
\* in order, each the collect_result of that instance, which is reset and
\* queued for selection; an instance that committed a move and sent no RESULT
\* is neither complete nor at max_turns
C13_Step ==
    \A w \in Workers :
        (wk[w].pc = "select" /\ (wk'[w] # wk[w] \/ insts'[w] # insts[w])) =>
            \A due \in {Due(w)} :
            \A new \in {SubSeq(ResultsSent(toCoord'[w], wk'[w]._buffer),
                                Len(ResultsSent(toCoord[w], wk[w]._buffer)) + 1,
                                Len(ResultsSent(toCoord'[w], wk'[w]._buffer)))} :
            \A over \in {SelectSeq(due, LAMBDA i : insts'[w][i].turns = 0)} :
                /\ Len(new) = Len(over)
                /\ \A k \in 1 .. Len(over) :
                      /\ \E j \in MoveChoices(insts[w][over[k]]) :
                            /\ OverAfter(insts[w][over[k]], j)
                            /\ new[k] = ResultMsg(
                                  collect_result(move_proportional(insts[w][over[k]], j)).score,
                                  collect_result(move_proportional(insts[w][over[k]], j)).history)
                      /\ Len(new[k].history) = insts[w][over[k]].turns + 1
                      /\ insts'[w][over[k]] = MCTS(InitialState)
                      /\ \E q \in 1 .. Len(wk'[w].pending_selection) :
                            wk'[w].pending_selection[q] = over[k]
                /\ \A k \in 1 .. Len(due) :
                      insts'[w][due[k]].turns # 0 =>
                          /\ insts'[w][due[k]].turns = insts[w][due[k]].turns + 1
                          /\ ~complete(insts'[w][due[k]])
                          /\ turns(insts'[w][due[k]]) < MaxTurns
                /\ \A i \in DOMAIN insts[w] :
                      searches_this_turn(insts[w][i]) < evaluations =>
                          insts'[w][i].turns = insts[w][i].turns

ReadByTrain ==
    LET RECURSIVE From(_)
        From(w) == IF w > NWorkers THEN <<>>
                   ELSE (IF toCoord'[w] # toCoord[w] THEN Head(toCoord[w]).items ELSE <<>>)
                        \o From(w + 1)
    IN  From(1)

\* the index of the first message of items whose tag is not in tags, or
\* Len(items) + 1
FirstOther(items, tags) ==
    IF \A j \in 1 .. Len(items) : items[j].tag \in tags THEN Len(items) + 1
    ELSE CHOOSE b \in 1 .. Len(items) :
             /\ items[b].tag \notin tags
             /\ \A j \in 1 .. b - 1 : items[j].tag \in tags

\* the number of history entries of the RESULTs among items
HistoryEntries(items) ==
    SumSeq([j \in 1 .. Len(items) |->
               IF items[j].tag = _RESULT THEN Len(items[j].history) ELSE 0])

\* C14 at train(): a message that is neither EVALUATE nor RESULT aborts it;
\* what it has inserted and queued is what the messages before that one asked
\* for, nothing for that message or a later one
C14_CoordStep ==
    (co.pc = "wait" /\ co'.pc # "wait" /\ co.step < TotalSteps) =>
        \A stream \in {ReadByTrain} :
        \A b \in {FirstOther(stream, {_EVALUATE, _RESULT})} :
        \A served \in {SubSeq(stream, 1, b - 1)} :
            /\ b <= Len(stream) => co'.pc = "crashed"
            /\ b > Len(stream) => co'.pc = "evaluate"
            /\ co'.inserts = HistoryEntries(served)
            /\ buffer'._size = Min(buffer._size + HistoryEntries(served), buffer._max_size)
            /\ buffer'._oldest_index =
                   (buffer._oldest_index + HistoryEntries(served)) % buffer._max_size
            /\ HistoryEntries(served) = 0 => buffer' = buffer
            /\ [k \in 1 .. Len(co'.states_for_evaluation) |->
                    co'.states_for_evaluation[k].state]
                   = [k \in 1 .. Len(Tagged(<<ListObject(served)>>, _EVALUATE)) |->
                         Tagged(<<ListObject(served)>>, _EVALUATE)[k].state]

\* the searches completed by the instances of worker w, summed
SearchesOf(ms) == SumSeq([i \in 1 .. Len(ms) |-> ms[i].searches])

\* C14 at a worker: a message that is neither EVALUATION nor TERMINATE, with
\* only EVALUATIONs before it, aborts the worker; it has popped and expanded
\* one leaf per EVALUATION before that message, nothing for the message itself
C14_WorkerStep ==
    \A w \in Workers :
        (wk[w].pc = "recv" /\ wk'[w].pc # "recv") =>
            \A items \in {Head(toWorker[w]).items} :
            \A b \in {FirstOther(items, {_EVALUATION})} :
            \A n \in {Min(b - 1, Len(wk[w].pending_evaluation))} :
                (b <= Len(items) /\ items[b].tag # _TERMINATE) =>
                    /\ wk'[w].pc = "crashed"
                    /\ wk'[w].pending_evaluation =
                           SubSeq(wk[w].pending_evaluation, n + 1,
                                  Len(wk[w].pending_evaluation))
                    /\ SearchesOf(insts'[w]) = SearchesOf(insts[w]) + n
                    /\ \A i \in DOMAIN insts[w] :
                           (\A q \in 1 .. n : wk[w].pending_evaluation[q][1] # i) =>
                               insts'[w][i] = insts[w][i]

\* C14: a message of a tag the receiver does not know aborts the receiver at
\* that message: train() inserts nothing and queues no evaluation for it, a
\* worker pops nothing from pending_evaluation and expands no leaf for it
C14_UnknownTagAborts == [][C14_CoordStep /\ C14_WorkerStep]_vars

\* C14 witness: train() aborted after the RESULT that came before the message
\* it does not know, and the worker aborted after expanding one of its two
\* pending leaves
C14_Witness ==
    /\ co.pc = "crashed"
    /\ co.inserts = 1
    /\ buffer._size = 1
    /\ wk[1].pc = "crashed"
    /\ Len(wk[1].pending_evaluation) = 1
    /\ insts[1][1].tree[Root].expanded
    /\ ~insts[1][2].tree[Root].expanded

(***************************************************************************)
(* Properties of the search tree.                                          *)
(***************************************************************************)
\* the edges of the tree of mcts, as <<path of the parent, child index>>
Edges(mcts) ==
    UNION {{<<p, j>> : j \in 1 .. Len(mcts.tree[p].children)} : p \in DOMAIN mcts.tree}

\* the selections in flight that went through the edge j of the node at p
Through(p, j) ==
    Cardinality({q \in 1 .. Len(InFlight) :
        /\ Len(InFlight[q][2]) > Len(p)
        /\ SubSeq(InFlight[q][2], 1, Len(p)) = p
        /\ InFlight[q][2][Len(p) + 1] = TheMCTS.tree[p].children[j].move})

\* C18: while the instance is alive every edge has visits >= 0 and
\* pending_visits >= 0, pending_visits counts the selections in flight through
\* the edge, and with no selection in flight it is 0 on every edge
C18_PendingVisits ==
    wk[1].pc # "crashed" =>
        \A e \in Edges(TheMCTS) :
            LET edge == TheMCTS.tree[e[1]].children[e[2]]
            IN  /\ edge.visits >= 0
                /\ edge.pending_visits >= 0
                /\ edge.pending_visits = Through(e[1], e[2])
                /\ InFlight = <<>> => edge.pending_visits = 0

\* C18 witness: selections went two edges deep, all were expanded, and the
\* tree holds visited edges below the root with nothing pending
C18_Witness ==
    /\ wk[1].pc # "crashed"
    /\ InFlight = <<>>
    /\ TheMCTS.turns >= 1
    /\ \E e \in Edges(TheMCTS) :
          /\ e[1] # Root
          /\ TheMCTS.tree[e[1]].children[e[2]].visits >= 1
    /\ \E j \in 1 .. Len(TheMCTS.tree[Root].children) :
          TheMCTS.tree[Root].children[j].visits >= 2

\* a leaf returned for the root of mcts is in flight
RootInFlight == \E q \in 1 .. Len(InFlight) : InFlight[q][2] = Root

\* C19: select_leaf returns None exactly when the root is unexpanded and the
\* leaf returned for it is still in flight, it returns a leaf of the tree in
\* every other state, and an unexpanded root has at most one leaf in flight
C19_SelectNone ==
    (wk[1].pc # "crashed" /\ ~complete(TheMCTS)) =>
        /\ (select_leaf(TheMCTS).leaf = NoLeaf)
               <=> (~TheMCTS.tree[Root].expanded /\ RootInFlight)
        /\ select_leaf(TheMCTS).leaf # NoLeaf =>
               select_leaf(TheMCTS).leaf \in DOMAIN TheMCTS.tree
        /\ ~TheMCTS.tree[Root].expanded => Len(InFlight) <= 1
        /\ wk[1].requeue # <<>> => (~TheMCTS.tree[Root].expanded /\ RootInFlight)

\* C19 witness: after a move the new root is unexpanded, its leaf is in
\* flight, and the select_leaf that followed returned None
C19_Witness ==
    /\ TheMCTS.turns >= 1
    /\ ~TheMCTS.tree[Root].expanded
    /\ InFlight = << <<1, Root>> >>
    /\ wk[1].requeue = <<1>>

\* the root of mcts is expanded with at least 4 children of equal priors and
\* no visits
FreshWideRoot(mcts) ==
    /\ mcts.tree[Root].expanded
    /\ Len(mcts.tree[Root].children) >= 4
    /\ \A j \in 1 .. Len(mcts.tree[Root].children) :
          /\ mcts.tree[Root].children[j].visits = 0
          /\ mcts.tree[Root].children[j].prior = mcts.tree[Root].children[1].prior

\* C20: on such a root the leaves in flight, which select_leaf returned back
\* to back with no expand_leaf since, are the first root children in order:
\* the q-th is the child of the q-th lowest action index, up to the 4th
C20_VirtualLossSpreads ==
    (wk[1].pc # "crashed" /\ FreshWideRoot(TheMCTS)) =>
        \A q \in 1 .. Min(4, Len(InFlight)) :
            /\ InFlight[q][2] = <<TheMCTS.tree[Root].children[q].move>>
            /\ \A r \in 1 .. q - 1 : InFlight[r][2][1] < InFlight[q][2][1]
            /\ \A j \in 1 .. q - 1 :
                  TheMCTS.tree[Root].children[j].move
                      < TheMCTS.tree[Root].children[q].move

\* C20 witness: 4 leaves are in flight under the 4 children of a fresh root
C20_Witness ==
    /\ FreshWideRoot(TheMCTS)
    /\ Len(InFlight) = 4
    /\ \A j \in 1 .. 4 : TheMCTS.tree[Root].children[j].pending_visits = 1

(***************************************************************************)
(* Properties of the worker's scheduling.                                  *)
(***************************************************************************)
\* C21, the state part: an instance with searches_this_turn() >= 1 has an
\* expanded root with children, and so has one that had the noise applied
C21_RootExpanded ==
    \A w \in Workers : \A i \in DOMAIN insts[w] :
        /\ searches_this_turn(insts[w][i]) >= 1 =>
               /\ insts[w][i].tree[Root].expanded
               /\ insts[w][i].tree[Root].children # <<>>
        /\ insts[w][i].noise_this_turn >= 1 => insts[w][i].tree[Root].expanded

\* C21, the step part: no pass of the selection loop fails, as it does when
\* add_dirichlet_noise is called on a root that is not expanded
C21_NoFailedCall ==
    \A w \in Workers : wk[w].pc = "select" => wk'[w].pc # "crashed"

\* C21: in every state of every worker searches_this_turn() >= 1 implies an
\* expanded root, after a move and after a reset too, and every call of
\* add_dirichlet_noise the worker makes is on such an instance
C21_NoiseOnExpandedRoot == [](C21_RootExpanded) /\ [][C21_NoFailedCall]_vars

\* C21 witness: the noise was applied on the root a move installed, in a
\* game that a reset started
C21_Witness ==
    \E w \in Workers : \E i \in DOMAIN insts[w] :
        /\ insts[w][i].turns >= 1
        /\ insts[w][i].noise_this_turn = 1
        /\ searches_this_turn(insts[w][i]) >= 1
        /\ co.results > 0

\* the instances queued in q, a deque or list of instance indices
Queued(q) == {q[k] : k \in 1 .. Len(q)}

\* C22, the state part: no instance queued for selection, in pending_selection
\* or in requeue, is complete
C22_NoneComplete ==
    \A w \in Workers :
        \A i \in Queued(wk[w].pending_selection) \cup Queued(wk[w].requeue) :
            ~complete(insts[w][i])

\* C22, the step part: the expansions of a received list leave current_state
\* of every instance as it was, and no pass of the selection loop fails its
\* assertion
C22_Steps ==
    \A w \in Workers :
        /\ wk[w].pc = "recv" =>
               \A i \in DOMAIN insts[w] :
                   insts'[w][i].current_state = insts[w][i].current_state
        /\ (wk[w].pc = "select" /\ wk'[w].pc = "crashed") =>
               \A i \in Queued(wk[w].pending_selection) : ~complete(insts[w][i])

\* C22: "assert not mcts.complete()" holds at every pop from pending_selection:
\* a finished instance is reset before it is requeued, and an expansion never
\* changes current_state
C22_AssertNotComplete == [](C22_NoneComplete) /\ [][C22_Steps]_vars

\* C22 witness: an instance whose game ended is back in pending_selection,
\* reset to the initial state, its RESULT sent, and the worker is about to
\* pop it
C22_Witness ==
    \E w \in Workers :
        /\ wk[w].pc = "select"
        /\ wk[w].pending_selection # <<>>
        /\ insts[w][Head(wk[w].pending_selection)] = MCTS(InitialState)
        /\ ~complete(insts[w][Head(wk[w].pending_selection)])
        /\ Len(Tagged(toCoord[w], _RESULT)) >= 1

\* where the instances of worker w are: pending_selection, then requeue, then
\* pending_evaluation
Whereabouts(w) ==
    wk[w].pending_selection \o wk[w].requeue
        \o [k \in 1 .. Len(wk[w].pending_evaluation) |-> wk[w].pending_evaluation[k][1]]

\* C23: while a worker runs, each of its K instances is in exactly one of
\* pending_selection, requeue and pending_evaluation, once; at the top of an
\* iteration of the main loop requeue is empty and len(pending_selection) +
\* len(pending_evaluation) = K, and neither deque ever holds more than K
C23_OnePlaceEach ==
    \A w \in Workers :
        wk[w].pc \in {"start", "select", "recv"} =>
            /\ Len(Whereabouts(w)) = worker_concurrency
            /\ Queued(Whereabouts(w)) = 1 .. worker_concurrency
            /\ DOMAIN insts[w] = 1 .. worker_concurrency
            /\ wk[w].pc = "select" =>
                   /\ wk[w].requeue = <<>>
                   /\ Len(wk[w].pending_selection) + Len(wk[w].pending_evaluation)
                          = worker_concurrency
            /\ wk[w].pc = "recv" => wk[w].pending_evaluation # <<>>

\* C23 witness: both instances of a worker went through requeue, each after
\* expanding a terminal leaf itself, and are back in pending_selection at the
\* top of the loop
C23_Witness ==
    \E w \in Workers :
        /\ worker_concurrency = 2
        /\ wk[w].pc = "select"
        /\ wk[w].pending_selection = <<1, 2>>
        /\ wk[w].pending_evaluation = <<>>
        /\ \A i \in 1 .. 2 :
              /\ searches_this_turn(insts[w][i]) = 2
              /\ insts[w][i].turns = 2

\* the leaves of instance i of worker w that await expand_leaf
LeavesInFlight(w, i) ==
    LET Mine(e) == e[1] = i
        mine == SelectSeq(wk[w].pending_evaluation, Mine)
    IN  [k \in 1 .. Len(mine) |-> mine[k][2]]

\* the descent to leaf went through the edge j of the node at p
OnPath(mcts, leaf, p, j) ==
    /\ Len(leaf) > Len(p)
    /\ SubSeq(leaf, 1, Len(p)) = p
    /\ leaf[Len(p) + 1] = mcts.tree[p].children[j].move

\* C24, the state part: an instance has at most one leaf in flight, and then
\* it is not queued for selection; that leaf is a node of its tree which
\* expand_leaf has not expanded, the pending visits are those of the descent
\* to it, and an instance with no leaf in flight has no pending visit and no
\* pending root
C24_OneLeaf ==
    \A w \in Workers :
        wk[w].pc \in {"start", "select", "recv"} =>
            \A i \in DOMAIN insts[w] :
                \A leaves \in {LeavesInFlight(w, i)} :
                    /\ Len(leaves) <= 1
                    /\ leaves # <<>> =>
                          i \notin Queued(wk[w].pending_selection) \cup Queued(wk[w].requeue)
                    /\ \A k \in 1 .. Len(leaves) :
                          /\ ~ExpandError(insts[w][i], leaves[k])
                          /\ ~insts[w][i].tree[leaves[k]].expanded
                    /\ insts[w][i].root_pending <=> (leaves = <<Root>>)
                    /\ \A e \in Edges(insts[w][i]) :
                          insts[w][i].tree[e[1]].children[e[2]].pending_visits =
                              IF leaves # <<>> /\ OnPath(insts[w][i], leaves[1], e[1], e[2])
                              THEN 1 ELSE 0

\* C24, the step part: in a pass of the selection loop every popped instance
\* gets a leaf, which is in flight after it, or was expanded by the worker as
\* terminal, unless its game ended; select_leaf returned None for none.  And
\* no list of EVALUATIONs makes the worker fail, as a second expand_leaf of
\* a leaf would
C24_Steps ==
    \A w \in Workers :
        /\ (wk[w].pc = "select" /\ (wk'[w] # wk[w] \/ insts'[w] # insts[w])) =>
               \A i \in Queued(wk[w].pending_selection) :
                   \A due \in {searches_this_turn(insts[w][i]) >= evaluations} :
                       \/ /\ LeavesInFlight(w, i)' # <<>>
                          /\ searches_this_turn(insts'[w][i]) =
                                 IF due THEN 0 ELSE searches_this_turn(insts[w][i])
                       \/ /\ LeavesInFlight(w, i)' = <<>>
                          /\ searches_this_turn(insts'[w][i]) =
                                 IF due THEN 1 ELSE searches_this_turn(insts[w][i]) + 1
                       \/ /\ LeavesInFlight(w, i)' = <<>>
                          /\ due
                          /\ insts'[w][i] = MCTS(InitialState)
        /\ (wk[w].pc = "recv" /\ wk'[w].pc = "crashed") =>
               Head(toWorker[w]).kind # "list"

Unread(w) ==
    Len(Tagged(toCoord[w], _EVALUATE)) + Len(Tagged(<<ListObject(wk[w]._buffer)>>, _EVALUATE))

\* the EVALUATEs of worker w that train() holds for evaluation
Held(w) == IF co.pc = "evaluate" THEN Len(HeldStates(w)) ELSE 0

\* the EVALUATIONs for worker w that it has not processed: in the wrapper of
\* train() or on the pipe
Unprocessed(w) ==
    Len(Answers(w)) + Len(Tagged(<<ListObject(co.wrappers[w])>>, _EVALUATION))

\* C25, the state part: what worker w has sent and not yet processed the
\* answer of is what its pending_evaluation holds
C25_Balance ==
    \A w \in Workers :
        wk[w].pc \in {"start", "select", "recv"} =>
            Unread(w) + Held(w) + Unprocessed(w) = Len(wk[w].pending_evaluation)

\* C25, the step part: the worker parks one leaf per EVALUATE it sends and
\* pops one per EVALUATION it processes, never from an empty
\* pending_evaluation; train() holds one state per EVALUATE it reads and
\* writes one EVALUATION per state it holds
C25_Steps ==
    \A w \in Workers :
        /\ (wk[w].pc = "select" /\ wk'[w] # wk[w]) =>
               Len(wk'[w].pending_evaluation) - Len(wk[w].pending_evaluation)
                   = Unread(w)' - Unread(w)
        /\ (wk[w].pc = "recv" /\ wk'[w] # wk[w] /\ Head(toWorker[w]).kind = "list") =>
               \A n \in {FirstOther(Head(toWorker[w]).items, {_EVALUATION}) - 1} :
                   /\ n <= Len(wk[w].pending_evaluation)
                   /\ Len(wk'[w].pending_evaluation) = Len(wk[w].pending_evaluation) - n
                   /\ Unprocessed(w)' = Unprocessed(w) - n
                   /\ wk'[w].pc # "crashed"
        /\ (co.pc = "wait" /\ co'.pc = "evaluate") =>
               Held(w)' = Unread(w) - Unread(w)'
        /\ (co.pc = "evaluate" /\ co'.pc = "train") =>
               /\ Unprocessed(w)' - Unprocessed(w) = Held(w)
               /\ Held(w)' = 0

\* C25: for every worker the EVALUATEs sent minus the EVALUATIONs processed is
\* len(pending_evaluation); train() answers every EVALUATE it reads once, and
\* no EVALUATION finds pending_evaluation empty
C25_RequestsBalance == [](C25_Balance) /\ [][C25_Steps]_vars

\* C25 witness: train() holds the two requests of one worker and a request of
\* the other, and the first awaits two answers in a later turn of its games
C25_Witness ==
    /\ co.pc = "evaluate"
    /\ \E w \in Workers :
          /\ Held(w) = 2
          /\ Len(wk[w].pending_evaluation) = 2
          /\ insts[w][1].turns >= 1
          /\ \E v \in Workers \ {w} : Held(v) >= 1

(***************************************************************************)
(* Properties of the flow of messages.                                     *)
(***************************************************************************)
\* the instances whose requests are followed: the first and the last of a
\* batch of BatchLimit, and the one after it
Followed == {1, BatchLimit, BatchLimit + 1}

\* instance i of worker w has a leaf in pending_evaluation
Awaiting(w, i) ==
    \E k \in 1 .. Len(wk[w].pending_evaluation) : wk[w].pending_evaluation[k][1] = i

\* the leaf of instance i was expanded and the instance is back for selection
Expanded(w, i) ==
    /\ i \in DOMAIN insts[w]
    /\ ~Awaiting(w, i)
    /\ insts[w][i] = "searched"
    /\ wk[w].pc \in {"select", "recv"}

\* every worker is in recv, and no list is on its way to a worker
Stalled ==
    /\ co.pc = "wait"
    /\ \A w \in Workers :
          /\ wk[w].pc = "recv"
          /\ toCoord[w] = <<>>
          /\ toWorker[w] = <<>>

C27_Flushed ==
    \A w \in Workers :
       /\ wk[w].pc = "recv" => wk[w]._buffer = <<>>
       /\ co.pc \in {"train", "wait"} => co.wrappers[w] = <<>>

\* C27, the step part: the evaluate phase writes to the pipe of a worker one
\* EVALUATION for each EVALUATE read from it, and the wrappers that the next
\* cycle replaces are empty
C27_Cycle ==
    /\ (co.pc = "evaluate" /\ co'.pc = "train") =>
          \A w \in Workers :
             Len(Tagged(toWorker'[w], _EVALUATION)) - Len(Tagged(toWorker[w], _EVALUATION))
                 = Len(SelectSeq(co.states_for_evaluation, LAMBDA s : s.pipe = w))
    /\ (co.pc = "wait" /\ co'.pc = "evaluate") =>
          \A w \in Workers : co.wrappers[w] = <<>> /\ co'.wrappers[w] = <<>>

\* C27: a worker blocks in recv with an empty send buffer, and the wrappers
\* of a cycle are empty when the cycle ends, so that no EVALUATION is lost
\* with them
C27_NothingLeftInBuffers == [](C27_Flushed) /\ [][C27_Cycle]_vars

\* C27 witness: a worker blocked in recv after a RESULT and an EVALUATE, and
\* another whose two EVALUATIONs train() has just written
C27_Witness ==
    /\ co.pc = "train"
    /\ \E w \in Workers :
          /\ wk[w].pc = "recv"
          /\ toCoord[w] # <<>>
          /\ Len(Tagged(toCoord[w], _RESULT)) >= 1
          /\ Len(Tagged(toCoord[w], _EVALUATE)) >= 1
    /\ \E w \in Workers :
          /\ wk[w].pc = "recv"
          /\ Len(Tagged(toWorker[w], _EVALUATION)) = 2

\* the messages written to worker 1's pipe, list after list
Written == Concat([i \in 1 .. Len(toCoord[1]) |-> toCoord[1][i].items])

\* C28, the state part: what was written, then what the buffer holds, is what
\* was sent, so that after a flush what was written is what was sent; a list
\* is written with 1 to BatchLimit messages; and as long as no flush wrote a
\* list, the sends taken as one loop (BP_sends) give the same pipe and buffer
C28_Concatenation ==
    /\ Written \o wk[1]._buffer = inserted
    /\ wk[1]._buffer = <<>> => Written = inserted
    /\ Len(wk[1]._buffer) < BatchLimit
    /\ \A i \in 1 .. Len(toCoord[1]) :
          /\ toCoord[1][i].kind = "list"
          /\ Len(toCoord[1][i].items) \in 1 .. BatchLimit
    /\ Flushes = {} =>
          BP_sends(BufferedPipe(<<>>), inserted)
              = [pipe |-> toCoord[1], _buffer |-> wk[1]._buffer]

\* C28, the step part: a list that was written stays as it was written, and
\* a flush leaves the buffer empty
C28_WrittenStays ==
    /\ Len(toCoord'[1]) >= Len(toCoord[1])
    /\ SubSeq(toCoord'[1], 1, Len(toCoord[1])) = toCoord[1]
    /\ inserted' = inserted => wk'[1]._buffer = <<>>

\* C28: the lists written to the pipe, in order, are the messages sent, in
\* order
C28_WritesAreTheSends == [](C28_Concatenation) /\ [][C28_WrittenStays]_vars

\* C28 witness: 97 sends and a flush: a list of BatchLimit and a list of one
C28_Witness ==
    /\ Len(inserted) = BatchLimit + 1
    /\ wk[1]._buffer = <<>>
    /\ Len(toCoord[1]) = 2
    /\ Len(toCoord[1][1].items) = BatchLimit
    /\ toCoord[1][2].items = <<inserted[BatchLimit + 1]>>

(***************************************************************************)
(* Properties of the evaluations budget.                                   *)
(***************************************************************************)
\* C30, the state part: no instance has more searches in its turn than the
\* budget
C30_WithinBudget ==
    \A w \in Workers : \A i \in DOMAIN insts[w] :
       searches_this_turn(insts[w][i]) <= evaluations

\* C30, the step part: in a pass of the selection loop an instance popped
\* with searches_this_turn() >= evaluations has exactly evaluations searches
\* and leaves the pass moved on (one turn further, or reset after its
\* result), its searches counted from the new root and any leaf in flight a
\* node of the new tree; an instance popped below the budget stays at its
\* root and gains at most one search
C30_Pass ==
    \A w \in Workers :
       (/\ wk[w].pc = "select"
        /\ wk'[w].pc # "crashed"
        /\ wk'[w] # wk[w] \/ insts'[w] # insts[w]) =>
           \A i \in Queued(wk[w].pending_selection) :
              \A m \in {insts[w][i]} : \A m2 \in {insts'[w][i]} :
                 IF searches_this_turn(m) >= evaluations
                 THEN /\ searches_this_turn(m) = evaluations
                      /\ m2.current_state # m.current_state
                      /\ \/ m2 = MCTS(InitialState)
                         \/ /\ turns(m2) = turns(m) + 1
                            /\ Len(m2.history) = Len(m.history) + 1
                            /\ m2.history[Len(m2.history)].state = m.current_state
                      /\ searches_this_turn(m2) <= 1
                      /\ \A k \in 1 .. Len(wk'[w].pending_evaluation) :
                            wk'[w].pending_evaluation[k][1] = i =>
                                wk'[w].pending_evaluation[k][2] \in DOMAIN m2.tree
                 ELSE /\ turns(m2) = turns(m)
                      /\ m2.current_state = m.current_state
                      /\ m2.history = m.history
                      /\ searches_this_turn(m2) \in
                             {searches_this_turn(m), searches_this_turn(m) + 1}

\* C30: searches_this_turn() never exceeds evaluations: the move is made at
\* the pop that finds it equal to evaluations, before anything is selected
C30_BudgetNeverExceeded == [](C30_WithinBudget) /\ [][C30_Pass]_vars

\* C30 witness: with a budget of 2, an instance in its second turn is about
\* to be popped with its two searches done
C30_Witness ==
    \E w \in Workers :
       /\ evaluations = 2
       /\ worker_concurrency = 1
       /\ wk[w].pc = "select"
       /\ wk[w].pending_selection = <<1>>
       /\ turns(insts[w][1]) = 1
       /\ searches_this_turn(insts[w][1]) = 2

(***************************************************************************)
(* Properties of the training loop.                                        *)
(***************************************************************************)
InLoop == co.pc \in {"wait", "evaluate", "train"}

\* C6, the state part
C6_Counters ==
    /\ co.step <= TotalSteps
    /\ co.optimizer_steps = co.step
    /\ ~InLoop => co.optimizer_steps = TotalSteps

\* C6, the step part: the phases of a cycle follow each other whatever was
\* received, and only the train phase moves the counter
C6_Cycle ==
    co' # co =>
        /\ (co.pc = "wait" /\ co.step < TotalSteps) => co'.pc = "evaluate"
        /\ co.pc = "evaluate" => co'.pc = "train"
        /\ co.pc = "train" =>
               /\ co'.pc = "wait"
               /\ co'.step = co.step + (IF len(buffer) >= 4 * BatchSize THEN 1 ELSE 0)
        /\ co.pc # "train" => co'.step = co.step
        /\ (co.pc = "wait" /\ co.step >= TotalSteps) => ~(co'.pc \in {"wait", "evaluate", "train"})

\* C6: in every cycle the step counter goes up by exactly 1 when len(buffer) >=
\* 4 * batch_size at the train phase and stays otherwise, the loop ends as soon
\* as step >= total_steps, and exactly total_steps optimizer steps are made
C6_StepCounter == [](C6_Counters) /\ [][C6_Cycle]_vars

\* C6 witness: the last step was made in a cycle in which no message arrived
C6_Witness ==
    /\ co.pc = "wait"
    /\ co.step = TotalSteps
    /\ co.results = 0
    /\ \A w \in Workers : co.read[w] = 0

\* C7, the state part: at the train phase every example of the RESULTs read in
\* this cycle is in the buffer and every EVALUATE read in this cycle has its
\* EVALUATION written to the pipe of its worker, none left in a wrapper
C7_Served ==
    co.pc = "train" =>
        /\ co.inserts = co.results
        /\ \A w \in Workers :
              LET FromW(e) == e.pipe = w
              IN  /\ co.read[w] = Len(SelectSeq(co.states_for_evaluation, FromW))
                  /\ co.written[w] = co.read[w]
                  /\ co.wrappers[w] = <<>>

\* C7: the RESULTs and EVALUATEs of a cycle are served before its buffer-size
\* check, sample and optimizer step, which happen in the train phase only
C7_ServedBeforeTrain ==
    /\ [](C7_Served)
    /\ [][co'.optimizer_steps # co.optimizer_steps => co.pc = "train"]_vars

\* C7 witness: a train phase that will step, after RESULTs and EVALUATEs
C7_Witness ==
    /\ co.pc = "train"
    /\ co.results > 0
    /\ \E w \in Workers : co.read[w] > 0
    /\ len(buffer) >= 4 * BatchSize

\* the RESULT messages train() reads in a step, in the order it reads them
ResultsRead ==
    LET took(w) == toCoord'[w] # toCoord[w]
        RECURSIVE From(_)
        From(w) == IF w > NWorkers THEN <<>>
                   ELSE (IF took(w) THEN Tagged(<<Head(toCoord[w])>>, _RESULT) ELSE <<>>)
                        \o From(w + 1)
    IN  From(1)

Sign(x) == IF x > 0 THEN 1 ELSE IF x < 0 THEN -1 ELSE 0

\* the examples the claim expects of one RESULT: <<position, label[0]>> per turn
ExpectedOf(msg) ==
    [t \in 1 .. Len(msg.history) |->
        <<position(msg.history[t].state),
          IF (t - 1) % 2 = 0 THEN Sign(msg.score) ELSE -Sign(msg.score)>>]

\* the n newest rows of the buffer, oldest first, as <<position, label[0]>>
NewestRows(rb, n) ==
    [i \in 1 .. n |->
        LET at == (rb._oldest_index + rb._max_size * n - n + i - 1) % rb._max_size
        IN  <<rb._features[at], rb._labels[at][1]>>]

\* C10, over a step of train() that reads RESULTs: the rows it inserts are one
\* per history entry, in order, with label[0] = score at even turns and -score
\* at odd turns, score being the received score as -1, 0 or 1, from the start
\* of every RESULT
C10_Step ==
    (co.pc = "wait" /\ co'.pc = "evaluate") =>
        \A expected \in {Concat([k \in 1 .. Len(ResultsRead) |-> ExpectedOf(ResultsRead[k])])} :
        \A n \in {Min(Len(expected), buffer._max_size)} :
            /\ co'.inserts = Len(expected)
            /\ buffer'._size = Min(buffer._size + Len(expected), buffer._max_size)
            /\ buffer'._oldest_index = (buffer._oldest_index + Len(expected)) % buffer._max_size
            /\ NewestRows(buffer', n) = SubSeq(expected, Len(expected) - n + 1, Len(expected))

C10_AlternatingLabels == [][C10_Step]_vars

\* C10 witness: two RESULTs were ingested in one cycle
C10_Witness ==
    /\ co.pc = "evaluate"
    /\ co.inserts >= 4
    /\ \E i \in 0 .. buffer._max_size - 1 : buffer._labels[i][1] = -1

====
